---- MODULE Spec2Model ----
(***************************************************************************)
(* Model of the LCARS MQTT framebuffer panel (src/mqtt_fb_panel.py and the *)
(* rendering modules it calls).                                            *)
(*                                                                         *)
(* The state is the module globals of mqtt_fb_panel.py, the position of    *)
(* the network callback (on_mqtt), of the main loop and of the shutdown    *)
(* routine (bye), and what the renderers did in the last render pass.      *)
(*                                                                         *)
(* Specifications:                                                         *)
(*   Spec       the running program: network thread, main loop, signals    *)
(*   SpecMqtt   on_mqtt applied to sequences of data and control messages  *)
(*   SpecTouch  _process_touch_event / _handle_button_press applied to     *)
(*              descriptor lists, modes and histories from bounded sets    *)
(*   SpecLayout the bar renderers applied to screen and text widths        *)
(*   SpecStop   the running program with both threads scheduled fairly     *)
(*   SpecLog    the message area of the event log applied to histories,    *)
(*              screens and fonts from bounded sets                        *)
(*   SpecFont   the font-fit search applied to boxes, sizes and steps      *)
(*   SpecXform  the touch transform applied to raw samples, rotations,     *)
(*              framebuffers, axis ranges and calibration errors           *)
(*   SpecShape  draw_lcars_shape applied to sizes, radii and flags         *)
(*                                                                         *)
(* Spec starts where the loop of main() starts (line 662): the broker is   *)
(* connected, the network thread runs and the signal handlers are          *)
(* installed.  The set-up of main() before it (lines 568-637) is not       *)
(* modelled.  Spec runs with LOG_CONTROL_MESSAGES=false; SpecMqtt runs     *)
(* with the default, true.                                                 *)
(*                                                                         *)
(* No renderer appends to active_buttons, so in Spec the list stays empty; *)
(* SpecTouch starts the touch handling with the lists a renderer would     *)
(* register, and SpecLayout calls the renderers with the arguments their   *)
(* signatures take.                                                        *)
(***************************************************************************)
EXTENDS Integers, Sequences, FiniteSets, TLC

(***************************************************************************)
(* Bounds of the model                                                     *)
(***************************************************************************)
\* capacity of the history, int(os.getenv("MAX_MESSAGES_IN_STORE", "50"))
MAX_MESSAGES_IN_STORE == 2
\* signals delivered to the process in one run
MaxSignals == 2
\* largest raw ABS_X / ABS_Y value the touch device reports
MaxRaw == 1

(***************************************************************************)
(* Python values                                                           *)
(***************************************************************************)
\* None, and a present value v, for Optional[...] globals
None == <<>>
Some(v) == <<v>>

\* missing key of a JSON object (dict.get returns None)
NoField == "<absent>"

(***************************************************************************)
(* collections.deque(maxlen=MAX_MESSAGES_IN_STORE)                         *)
(***************************************************************************)
DequeAppendNoEvict(store, m) == Append(store, m)

\* deque.append with maxlen: a full deque discards its leftmost element first
DequeAppend(store, m) ==
    IF MAX_MESSAGES_IN_STORE = 0 THEN store
    ELSE IF Len(store) >= MAX_MESSAGES_IN_STORE
         THEN Append(Tail(store), m)
         ELSE Append(store, m)

(***************************************************************************)
(* Timestamps                                                              *)
(* A timestamp string is a sequence of tokens: "1", "2" stand for ISO-8601 *)
(* date-times without offset, "+00:00" for a UTC offset, "Z" for the Zulu  *)
(* suffix and "x" for text that is no date-time.                           *)
(***************************************************************************)
IsoBodies == {"1", "2"}

\* datetime.now()
Now == [src |-> "now", t |-> "", tz |-> "naive"]

\* datetime.fromisoformat(s): a record with ok = FALSE stands for ValueError
FromIsoFormat(s) ==
    IF Len(s) = 1 /\ s[1] \in IsoBodies
    THEN [ok |-> TRUE, dt |-> [src |-> "parsed", t |-> s[1], tz |-> "naive"]]
    ELSE IF Len(s) = 2 /\ s[1] \in IsoBodies /\ s[2] = "+00:00"
    THEN [ok |-> TRUE, dt |-> [src |-> "parsed", t |-> s[1], tz |-> "utc"]]
    ELSE [ok |-> FALSE, dt |-> Now]

\* str.endswith('Z')
EndsWithZ(s) == Len(s) > 0 /\ s[Len(s)] = "Z"

\* lines 539-542: a trailing 'Z' is replaced by '+00:00'
IsoNormalise(s) ==
    IF EndsWithZ(s) THEN Append(SubSeq(s, 1, Len(s) - 1), "+00:00") ELSE s

\* the value of the "timestamp" key of a JSON object
TsAbsent == [kind |-> "absent", s |-> <<>>, n |-> 0]
TsStr(s) == [kind |-> "str", s |-> s, n |-> 0]
TsNum(n) == [kind |-> "num", s |-> <<>>, n |-> n]

\* Python truthiness of the timestamp value (if timestamp_str:)
Truthy(ts) ==
    \/ ts.kind = "str" /\ Len(ts.s) > 0
    \/ ts.kind = "num" /\ ts.n # 0

\* lines 536-547 of on_mqtt: raised = TRUE stands for the AttributeError of
\* timestamp_str.endswith on a value that is no string, which the inner
\* "except ValueError" does not catch
ParseTimestamp(ts) ==
    IF ~Truthy(ts) THEN [raised |-> FALSE, dt |-> Now]
    ELSE IF ts.kind # "str" THEN [raised |-> TRUE, dt |-> Now]
    ELSE LET r == FromIsoFormat(IsoNormalise(ts.s))
         IN  [raised |-> FALSE, dt |-> IF r.ok THEN r.dt ELSE Now]

(***************************************************************************)
(* MQTT messages                                                           *)
(* A topic is its namespace ("control": starts with                        *)
(* MQTT_CONTROL_TOPIC_PREFIX, "data": starts with MQTT_TOPIC_PREFIX) and   *)
(* the suffix after the prefix.  A payload is raw text, a JSON object with *)
(* an optional "message" and "timestamp", or some other JSON value.        *)
(***************************************************************************)
Raw(text) == [fmt |-> "raw", text |-> text, message |-> NoField, ts |-> TsAbsent]
JsonObj(message, ts) == [fmt |-> "json_obj", text |-> "{..}", message |-> message, ts |-> ts]
JsonOther == [fmt |-> "json_other", text |-> "42", message |-> NoField, ts |-> TsAbsent]

ControlMsg(suffix, text) == [topic |-> [ns |-> "control", suffix |-> suffix], payload |-> Raw(text)]
DataMsg(payload) == [topic |-> [ns |-> "data", suffix |-> "sensor"], payload |-> payload]

\* msg.payload.decode(errors="ignore").strip()
PayloadStr(msg) == msg.payload.text

\* the Message dataclass
Message(text, source, importance, timestamp, topic) ==
    [text |-> text, source |-> source, importance |-> importance,
     timestamp |-> timestamp, topic |-> topic]

\* lines 513-530 of on_mqtt: the source of a raw-text message is the topic suffix,
\* or the last component of the prefix when the suffix is empty
SourceFromTopic(topic) == IF topic.suffix # "" THEN topic.suffix ELSE "lcars_panel"

\* lines 497-555 of on_mqtt, up to the construction of the Message:
\*   "dropped"  the JSON object has no (or an empty) "message": return
\*   "raised"   an exception other than JSONDecodeError / ValueError reaches
\*              the handler of line 564
\*   "stored"   new_msg_obj was built and is appended
MissingTextOnlyAbsent(p) == p.message = NoField

\* line 501: if not text_content
MissingText(p) == p.message = NoField \/ p.message = ""

ParseData(msg) ==
    LET p == msg.payload IN
    IF p.fmt = "raw"
    THEN [kind |-> "stored",
          m |-> Message(PayloadStr(msg), SourceFromTopic(msg.topic), "info", Now, msg.topic)]
    ELSE IF p.fmt = "json_other"
    THEN [kind |-> "raised", m |-> Message("", "", "", Now, msg.topic)]
    ELSE IF MissingText(p)
    THEN [kind |-> "dropped", m |-> Message("", "", "", Now, msg.topic)]
    ELSE LET r == ParseTimestamp(p.ts) IN
         IF r.raised
         THEN [kind |-> "raised", m |-> Message("", "", "", Now, msg.topic)]
         ELSE [kind |-> "stored",
               m |-> Message(p.message, "Unknown", "info", r.dt, msg.topic)]

DebugLayoutElseDisable(ps, g) ==
    [g EXCEPT !.debug_layout_enabled = (ps = "enable"), !.needs_render = TRUE]

\* lines 419-429 of on_mqtt: the debug-layout command
DebugLayout(ps, g) ==
    IF ps = "enable"
    THEN [g EXCEPT !.debug_layout_enabled = TRUE, !.needs_render = TRUE]
    ELSE IF ps = "disable" \/ ps = ""
    THEN [g EXCEPT !.debug_layout_enabled = FALSE, !.needs_render = TRUE]
    ELSE [g EXCEPT !.needs_render = TRUE]

ModeSelectAnyPayload(ps, g) ==
    IF g.current_display_mode # ps
    THEN [g EXCEPT !.current_display_mode = ps, !.needs_render = TRUE]
    ELSE g

\* lines 457-468 of on_mqtt: the mode-select command
ModeSelect(ps, g) ==
    IF ps = "events"
    THEN IF g.current_display_mode # "events"
         THEN [g EXCEPT !.current_display_mode = "events", !.needs_render = TRUE]
         ELSE g
    ELSE IF ps = "clock"
    THEN IF g.current_display_mode # "clock"
         THEN [g EXCEPT !.current_display_mode = "clock", !.needs_render = TRUE]
         ELSE g
    ELSE g

\* lines 419-474 of on_mqtt: the effect of a control command on the globals g
\* and on needs_render
CommandEffect(suffix, ps, g) ==
    LET same == [g EXCEPT !.needs_render = FALSE] IN
    IF suffix = "debug-layout" THEN DebugLayout(ps, same)
    ELSE IF suffix = "debug-touch" THEN
        IF ps = "enable"
        THEN IF ~g.debug_touch_enabled
             THEN [same EXCEPT !.debug_touch_enabled = TRUE, !.needs_render = TRUE]
             ELSE same
        ELSE IF ps = "disable" \/ ps = ""
        THEN IF g.debug_touch_enabled
             THEN [same EXCEPT !.debug_touch_enabled = FALSE,
                               !.last_debug_touch_coords = None,
                               !.needs_render = TRUE]
             ELSE same
        ELSE same
    ELSE IF suffix = "log-control" THEN
        IF ps = "enable"
        THEN [same EXCEPT !.log_control_messages_enabled = TRUE]
        ELSE IF ps = "disable" \/ ps = ""
        THEN [same EXCEPT !.log_control_messages_enabled = FALSE]
        ELSE same
    ELSE IF suffix = "mode-select" THEN ModeSelect(ps, same)
    ELSE IF suffix = "clear-events" THEN
        [same EXCEPT !.messages_store = <<>>,
                     !.needs_render = (g.current_display_mode = "events")]
    ELSE same

\* the control command stored whatever the logging flag says
LogControlAlways(msg, g) ==
    [g EXCEPT !.messages_store =
                  DequeAppend(g.messages_store,
                              Message(PayloadStr(msg), "LCARS/" \o msg.topic.suffix, "control",
                                      Now, msg.topic)),
              !.needs_render = (g.needs_render \/ g.current_display_mode = "events")]

\* lines 476-491 of on_mqtt: the control command is stored as a Message when
\* logging of control messages is enabled
LogControl(msg, g) ==
    IF g.log_control_messages_enabled
    THEN [g EXCEPT !.messages_store =
                       DequeAppend(g.messages_store,
                                   Message(PayloadStr(msg), "LCARS/" \o msg.topic.suffix, "control",
                                           Now, msg.topic)),
                   !.needs_render = (g.needs_render \/ g.current_display_mode = "events")]
    ELSE g

(***************************************************************************)
(* Calls between the modules                                               *)
(* A Python call binds npos positional arguments and the keyword arguments *)
(* kws to the callee's parameters (the last ndefaults of which have        *)
(* defaults); a call that does not bind raises TypeError before the body   *)
(* of the callee runs.                                                     *)
(***************************************************************************)
Binds(npos, kws, params, ndefaults) ==
    /\ npos <= Len(params)
    /\ \A k \in kws : \E i \in (npos + 1)..Len(params) : params[i] = k
    /\ \A i \in (npos + 1)..(Len(params) - ndefaults) : params[i] \in kws

render_top_bar_params ==
    <<"draw", "screen_width", "title_text", "debug_layout_enabled">>
render_bottom_bar_params ==
    <<"draw", "screen_width", "screen_height", "label_text", "buttons_config",
      "debug_layout_enabled">>
render_event_log_full_panel_params ==
    <<"img", "draw", "messages_store", "debug_layout_enabled">>
render_clock_full_panel_params ==
    <<"img", "draw", "active_buttons_list", "debug_layout_enabled">>

\* render_clock_full_panel: render_top_bar(draw, WIDTH, "CURRENT TIME",
\* debug_layout_enabled=...) binds; render_bottom_bar(draw, WIDTH, HEIGHT,
\* label_text=, buttons_config=, active_buttons_list=, debug_layout_enabled=)
ClockPanelRaises ==
    \/ ~Binds(3, {"debug_layout_enabled"}, render_top_bar_params, 1)
    \/ ~Binds(3, {"label_text", "buttons_config", "active_buttons_list",
                  "debug_layout_enabled"}, render_bottom_bar_params, 1)

\* refresh_display, lines 105-111: TRUE when the call of the mode's panel renderer
\* raises (the exception leaves refresh_display before the debug visuals and push)
RefreshRaises(mode) ==
    IF mode = "clock"
    THEN ~Binds(4, {}, render_clock_full_panel_params, 0) \/ ClockPanelRaises
    ELSE ~Binds(5, {}, render_event_log_full_panel_params, 0)

(***************************************************************************)
(* The bars (lcars_ui_components.py)                                       *)
(* A font is its metrics fm: the width of a character of TITLE_FONT and of *)
(* BODY_FONT, and BAR_HEIGHT, the pixel height of an uppercase character   *)
(* of TITLE_FONT.                                                          *)
(***************************************************************************)
PADDING == 5
BUTTON_PADDING_X == 10

\* text_size(draw, txt, font)[0]
text_size(txt, char_w) == Len(txt) * char_w

ButtonsFitAlways(buttons_group_start_x, current_x) == TRUE

\* line 136: if actual_button_draw_x >= current_x
ButtonsFit(buttons_group_start_x, current_x) == buttons_group_start_x >= current_x

RECURSIVE SumWidthsNoGap(_, _)
SumWidthsNoGap(details, n) ==
    IF n = 0 THEN 0 ELSE SumWidthsNoGap(details, n - 1) + details[n].width

RECURSIVE SumWidths(_, _)
\* lines 107-118: required_width_for_all_buttons_and_spacing over the first n buttons
SumWidths(details, n) ==
    IF n = 0 THEN 0
    ELSE SumWidths(details, n - 1) + details[n].width + (IF n > 1 THEN PADDING ELSE 0)

\* render_bottom_bar (lines 58-160): the label and the buttons are the ones the
\* function names itself; label_text and buttons_config are not read
render_bottom_bar(screen_width, screen_height, label_text, buttons_config, fm) ==
    LET BAR_HEIGHT == fm.bar_height
        BOTTOM_BAR_Y == screen_height - PADDING - BAR_HEIGHT
        text_x == PADDING + BAR_HEIGHT + PADDING
        mqtt_stream_text == "MQTT STREAM"
        mqtt_stream_text_w == text_size(mqtt_stream_text, fm.title_w)
        current_x == text_x + mqtt_stream_text_w + PADDING
        button_texts == <<"CLEAR", "RELATIVE", "CLOCK">>
        button_colors == <<"COLOR_BUTTON_CLEAR", "COLOR_BUTTON_RELATIVE", "COLOR_BUTTON_CLOCK">>
        button_details ==
            [i \in 1..Len(button_texts) |->
                [text |-> button_texts[i],
                 width |-> text_size(button_texts[i], fm.body_w) + 2 * BUTTON_PADDING_X,
                 color |-> button_colors[i]]]
        required_width == SumWidths(button_details, Len(button_details))
        buttons_group_start_x ==
            screen_width - PADDING - BAR_HEIGHT - PADDING - required_width
        fill_bar_width == (buttons_group_start_x - PADDING) - current_x
        final_right_terminator_x == screen_width - PADDING - BAR_HEIGHT
    IN  [raised |-> FALSE,
         y |-> BOTTOM_BAR_Y,
         h |-> BAR_HEIGHT,
         label |-> [text |-> mqtt_stream_text, x |-> text_x, w |-> mqtt_stream_text_w],
         fill |-> IF fill_bar_width > 0
                  THEN <<[x |-> current_x, w |-> fill_bar_width]>>
                  ELSE <<>>,
         buttons |-> IF ButtonsFit(buttons_group_start_x, current_x)
                     THEN [i \in 1..Len(button_details) |->
                             [text |-> button_details[i].text,
                              color |-> button_details[i].color,
                              x |-> buttons_group_start_x + SumWidths(button_details, i - 1)
                                      + (IF i > 1 THEN PADDING ELSE 0),
                              w |-> button_details[i].width]]
                     ELSE <<>>,
         right_terminator |-> IF final_right_terminator_x >= PADDING
                              THEN <<final_right_terminator_x>>
                              ELSE <<>>]

SegmentDrawnAtZero(bar_segment_width) == bar_segment_width >= 0

\* line 55: if bar_segment_width > 0
SegmentDrawn(bar_segment_width) == bar_segment_width > 0

\* render_top_bar (lines 6-56): the title is the one the function names itself;
\* title_text is not read
render_top_bar(screen_width, title_text, fm) ==
    LET BAR_HEIGHT == fm.bar_height
        event_log_text == "EVENT LOG"
        event_log_text_w == text_size(event_log_text, fm.title_w)
        text_x_coordinate == (screen_width - PADDING - BAR_HEIGHT) - PADDING - event_log_text_w
        bar_segment_start_x == PADDING + BAR_HEIGHT + PADDING
        bar_segment_end_x == text_x_coordinate - PADDING
        bar_segment_width == bar_segment_end_x - bar_segment_start_x
    IN  [left_terminator |-> [x |-> PADDING, w |-> BAR_HEIGHT],
         right_terminator |-> [x |-> screen_width - PADDING - BAR_HEIGHT, w |-> BAR_HEIGHT],
         title |-> <<[text |-> event_log_text, x |-> text_x_coordinate,
                      w |-> event_log_text_w]>>,
         segment |-> IF SegmentDrawn(bar_segment_width)
                     THEN <<[x |-> bar_segment_start_x, w |-> bar_segment_width]>>
                     ELSE <<>>]

\* event_log_buttons (event_log_mode.py lines 137-141)
event_log_buttons ==
    << [text |-> "CLEAR", color |-> "COLOR_BUTTON_CLEAR", id |-> "btn_clear"],
       [text |-> "RELATIVE", color |-> "COLOR_BUTTON_RELATIVE", id |-> "btn_relative"],
       [text |-> "CLOCK", color |-> "COLOR_BUTTON_CLOCK", id |-> "btn_clock_mode"] >>

\* nothing drawn
NoBar ==
    [raised |-> FALSE, y |-> 0, h |-> 0, label |-> [text |-> "", x |-> 0, w |-> 0],
     fill |-> <<>>, buttons |-> <<>>, right_terminator |-> <<>>]
NoFont == [title_w |-> 0, body_w |-> 0, bar_height |-> 0]
NoLayout == [what |-> "none", width |-> 0, fm |-> NoFont, bar |-> NoBar, completed |-> FALSE]

(***************************************************************************)
(* State                                                                   *)
(***************************************************************************)
VARIABLES
    \* module globals of mqtt_fb_panel.py
    messages_store,                 \* deque of Message, oldest first
    current_display_mode,           \* "events" or "clock"
    debug_layout_enabled,
    debug_touch_enabled,
    log_control_messages_enabled,
    last_debug_touch_coords,        \* None or <<x, y>>
    active_buttons,                 \* list of [id, rect]
    last_touch_x,                   \* None or Some(raw x)
    last_touch_y,
    exit_in_progress,               \* _exit_in_progress
    \* collaborators
    touch_cfg,                      \* the touch device and its ABS ranges
    connected,                      \* client.is_connected()
    fb_open,                        \* fb.mem is mapped
    display,                        \* the frame last written to the framebuffer
    \* control state
    net,                            \* the network thread: on_mqtt
    main,                           \* the main thread: the loop of main()
    byeStack,                       \* activations of bye on the main thread, innermost last
    signals,                        \* signals delivered so far
    \* observations
    teardown,                       \* how often each teardown step of bye ran
    byeCalls,                       \* how often bye was invoked
    renderCalls,                    \* calls of refresh_display made by the last step
    pressed,                        \* ids passed to _handle_button_press by the last touch-down
    abAccess,                       \* threads that read or mutated active_buttons
    lay                             \* what the last call of a renderer drew

globalVars == <<messages_store, current_display_mode, debug_layout_enabled,
                debug_touch_enabled, log_control_messages_enabled>>
touchVars  == <<last_touch_x, last_touch_y, touch_cfg>>
byeVars    == <<exit_in_progress, byeStack, signals, teardown, byeCalls, connected, fb_open>>
vars == <<globalVars, last_debug_touch_coords, active_buttons, touchVars, byeVars,
          display, net, main, renderCalls, pressed, abAccess, lay>>

\* the globals on_mqtt reads and writes, with its local needs_render
Globals ==
    [messages_store |-> messages_store,
     current_display_mode |-> current_display_mode,
     debug_layout_enabled |-> debug_layout_enabled,
     debug_touch_enabled |-> debug_touch_enabled,
     log_control_messages_enabled |-> log_control_messages_enabled,
     last_debug_touch_coords |-> last_debug_touch_coords,
     needs_render |-> net.needs_render]

SetGlobals(g) ==
    /\ messages_store' = g.messages_store
    /\ current_display_mode' = g.current_display_mode
    /\ debug_layout_enabled' = g.debug_layout_enabled
    /\ debug_touch_enabled' = g.debug_touch_enabled
    /\ log_control_messages_enabled' = g.log_control_messages_enabled
    /\ last_debug_touch_coords' = g.last_debug_touch_coords

(***************************************************************************)
(* refresh_display                                                         *)
(***************************************************************************)
BlankFrame == [kind |-> "blank", mode |-> "", lines |-> <<>>]
PanelFrame(mode, store) == [kind |-> "panel", mode |-> mode, lines |-> store]

\* refresh_display called on thread t with the mode and history it reads:
\* active_buttons.clear() (line 103), the panel renderer (105-111), push (135).
\* No renderer appends to active_buttons.
RefreshDisplay(t, mode, store) ==
    /\ active_buttons' = <<>>
    /\ abAccess' = abAccess \cup {t}
    /\ renderCalls' = 1
    /\ display' = IF RefreshRaises(mode) \/ ~fb_open
                  THEN display
                  ELSE PanelFrame(mode, store)

NoRefresh ==
    /\ renderCalls' = 0
    /\ UNCHANGED <<active_buttons, abAccess, display>>

\* a step of thread t that iterates over active_buttons and does not render
ReadButtons(t) ==
    /\ renderCalls' = 0
    /\ abAccess' = abAccess \cup {t}
    /\ UNCHANGED <<active_buttons, display>>

(***************************************************************************)
(* The network thread: on_mqtt                                             *)
(***************************************************************************)
NoMsg == [topic |-> [ns |-> "none", suffix |-> ""], payload |-> Raw("")]
\* pc is the position in on_mqtt ("idle": not in the callback, "ret": returning
\* from it); evicted records whether the callback's append found the deque full
NetIdle ==
    [pc |-> "idle", msg |-> NoMsg, needs_render |-> FALSE, evicted |-> FALSE,
     running |-> TRUE]
NetRet == [net EXCEPT !.pc = "ret"]
Full(store) == MAX_MESSAGES_IN_STORE > 0 /\ Len(store) >= MAX_MESSAGES_IN_STORE

Alive == main.pc # "exited"

\* paho calls on_mqtt(client, userdata, msg) with a message from the set M
NetReceive(M) ==
    /\ Alive /\ net.running /\ net.pc = "idle"
    /\ \E msg \in M : net' = [net EXCEPT !.pc = "recv", !.msg = msg]
    /\ NoRefresh
    /\ UNCHANGED <<globalVars, last_debug_touch_coords, touchVars, lay, byeVars, main, pressed>>

\* lines 497-557: a message on a data topic
NetData ==
    /\ Alive /\ net.pc = "recv" /\ net.msg.topic.ns = "data"
    /\ LET r == ParseData(net.msg) IN
       IF r.kind = "stored"
       THEN /\ messages_store' = DequeAppend(messages_store, r.m)
            /\ net' = [net EXCEPT !.pc = "render_check",
                                  !.evicted = Full(messages_store)]
       ELSE /\ messages_store' = messages_store
            /\ net' = NetRet
    /\ NoRefresh
    /\ UNCHANGED <<current_display_mode, debug_layout_enabled, debug_touch_enabled,
                   log_control_messages_enabled, last_debug_touch_coords, touchVars, lay,
                   byeVars, main, pressed>>

\* lines 559-565: re-render in events mode; an exception of refresh_display is
\* caught by the handler of line 564
NetDataRender ==
    /\ Alive /\ net.pc = "render_check"
    /\ IF current_display_mode = "events"
       THEN RefreshDisplay("net", current_display_mode, messages_store)
       ELSE NoRefresh
    /\ net' = NetRet
    /\ UNCHANGED <<globalVars, last_debug_touch_coords, touchVars, lay, byeVars, main, pressed>>

\* lines 414-474: a message on a control topic; the command is applied.
\* "debug-touch disable" writes debug_touch_enabled (line 439) and
\* last_debug_touch_coords (line 440) in two steps.
NetControl ==
    /\ Alive /\ net.pc = "recv" /\ net.msg.topic.ns = "control"
    /\ LET e == CommandEffect(net.msg.topic.suffix, PayloadStr(net.msg), Globals) IN
       IF e.debug_touch_enabled # debug_touch_enabled /\ ~e.debug_touch_enabled
       THEN /\ debug_touch_enabled' = FALSE
            /\ net' = [net EXCEPT !.pc = "dt_clear", !.needs_render = FALSE]
            /\ UNCHANGED <<messages_store, current_display_mode, debug_layout_enabled,
                           log_control_messages_enabled, last_debug_touch_coords>>
       ELSE /\ SetGlobals(e)
            /\ net' = [net EXCEPT !.pc = "log", !.needs_render = e.needs_render]
    /\ NoRefresh
    /\ UNCHANGED <<touchVars, lay, byeVars, main, pressed>>

\* lines 440-442
NetDtClear ==
    /\ Alive /\ net.pc = "dt_clear"
    /\ last_debug_touch_coords' = None
    /\ net' = [net EXCEPT !.pc = "log", !.needs_render = TRUE]
    /\ NoRefresh
    /\ UNCHANGED <<globalVars, touchVars, lay, byeVars, main, pressed>>

\* lines 476-491: the command is logged; 493-495: on_mqtt renders or returns
NetLog ==
    /\ Alive /\ net.pc = "log"
    /\ LET g == LogControl(net.msg, Globals) IN
       /\ SetGlobals(g)
       /\ net' = [net EXCEPT !.pc = IF g.needs_render THEN "render" ELSE "ret",
                             !.needs_render = g.needs_render,
                             !.evicted = log_control_messages_enabled
                                         /\ Full(messages_store)]
    /\ NoRefresh
    /\ UNCHANGED <<touchVars, lay, byeVars, main, pressed>>

\* line 494, with the handler of line 564
NetRender ==
    /\ Alive /\ net.pc = "render"
    /\ RefreshDisplay("net", current_display_mode, messages_store)
    /\ net' = NetRet
    /\ UNCHANGED <<globalVars, last_debug_touch_coords, touchVars, lay, byeVars, main, pressed>>

\* on_mqtt returns to the loop of the network thread
NetReturn ==
    /\ Alive /\ net.pc = "ret"
    /\ net' = [NetIdle EXCEPT !.running = net.running]
    /\ NoRefresh
    /\ UNCHANGED <<globalVars, last_debug_touch_coords, touchVars, lay, byeVars, main, pressed>>

(***************************************************************************)
(* Touch transform: _transform_touch_coordinates                           *)
(* Python's float arithmetic is modelled by exact rationals [n, d], d > 0. *)
(***************************************************************************)
RatNorm(n, d) == IF d < 0 THEN [n |-> 0 - n, d |-> 0 - d] ELSE [n |-> n, d |-> d]
RatInt(k) == [n |-> k, d |-> 1]
\* k - r
RatSubFrom(k, r) == [n |-> k * r.d - r.n, d |-> r.d]
\* int(r): truncation towards zero
IntTrunc(r) == IF r.n >= 0 THEN r.n \div r.d ELSE 0 - ((0 - r.n) \div r.d)

\* get_calibrated_scaled_value with int() applied to its result
ScaledValueTruncated(raw_val, r_min, r_max, target_dim, E) ==
    LET D_minus_1 == target_dim - 1
        den == D_minus_1 * E.d - 2 * E.n
    IN  IF r_max - r_min = 0
        THEN RatInt(D_minus_1 \div 2)
        ELSE IF den <= 0
             THEN RatInt(IntTrunc(RatNorm((raw_val - r_min) * D_minus_1, r_max - r_min)))
             ELSE RatInt(IntTrunc(RatNorm((raw_val - r_min) * D_minus_1 * D_minus_1 * E.d
                                              - E.n * D_minus_1 * (r_max - r_min),
                                          (r_max - r_min) * den)))

\* get_calibrated_scaled_value with the midpoint as its only fallback
ScaledValueMidpointFallback(raw_val, r_min, r_max, target_dim, E) ==
    LET D_minus_1 == target_dim - 1
        den == D_minus_1 * E.d - 2 * E.n
    IN  IF den <= 0
        THEN RatNorm(D_minus_1, 2)
        ELSE IF r_max - r_min = 0
             THEN RatNorm(D_minus_1 * D_minus_1 * E.d - 2 * E.n * D_minus_1, 2 * den)
             ELSE RatNorm((raw_val - r_min) * D_minus_1 * D_minus_1 * E.d
                              - E.n * D_minus_1 * (r_max - r_min),
                          (r_max - r_min) * den)

\* get_calibrated_scaled_value (lines 230-254); E is the edge error in pixels
get_calibrated_scaled_value(raw_val, r_min, r_max, target_dim, E) ==
    LET D_minus_1 == target_dim - 1
        \* denominator = D_minus_1 - 2E, as a multiple of 1 / E.d
        den == D_minus_1 * E.d - 2 * E.n
    IN  IF den <= 0
        THEN IF r_max - r_min = 0
             THEN RatNorm(D_minus_1, 2)
             ELSE RatNorm((raw_val - r_min) * D_minus_1, r_max - r_min)
        ELSE IF r_max - r_min = 0
             THEN RatNorm(D_minus_1 * D_minus_1 * E.d - 2 * E.n * D_minus_1, 2 * den)
             ELSE RatNorm((raw_val - r_min) * D_minus_1 * D_minus_1 * E.d
                              - E.n * D_minus_1 * (r_max - r_min),
                          (r_max - r_min) * den)

\* the remap with the entry of 180 degrees also at 90 degrees
RotationRemapSwapAt90(rot, raw_x, raw_y, pw, ph) ==
    IF rot = 0 THEN <<pw - 1 - raw_y, raw_x>>
    ELSE IF rot \in {90, 180} THEN <<raw_y, ph - 1 - raw_x>>
    ELSE IF rot = 270 THEN <<ph - 1 - raw_x, pw - 1 - raw_y>>
    ELSE <<raw_x, raw_y>>

\* lines 184-198: the remap of the raw sample for the rotation, without scaling
RotationRemap(rot, raw_x, raw_y, pw, ph) ==
    IF rot = 0 THEN <<pw - 1 - raw_y, raw_x>>
    ELSE IF rot = 90 THEN <<raw_x, raw_y>>
    ELSE IF rot = 180 THEN <<raw_y, ph - 1 - raw_x>>
    ELSE IF rot = 270 THEN <<ph - 1 - raw_x, pw - 1 - raw_y>>
    ELSE <<raw_x, raw_y>>

\* lines 256-294: the scaled and calibrated point, as two rationals; ex and ey
\* are cal_error_x_pixels and cal_error_y_pixels
ScaledRemap(rot, raw_x, raw_y, pw, ph, cfg, ex, ey) ==
    IF rot = 0 THEN
        LET sy == get_calibrated_scaled_value(raw_y, cfg.min_y, cfg.max_y, pw, ex)
            sx == get_calibrated_scaled_value(raw_x, cfg.min_x, cfg.max_x, ph, ey)
        IN  <<RatSubFrom(pw - 1, sy), sx>>
    ELSE IF rot = 90 THEN
        LET sx == get_calibrated_scaled_value(raw_x, cfg.min_x, cfg.max_x, pw, ex)
            sy == get_calibrated_scaled_value(raw_y, cfg.min_y, cfg.max_y, ph, ey)
        IN  <<sx, sy>>
    ELSE IF rot = 180 THEN
        LET sy == get_calibrated_scaled_value(raw_y, cfg.min_y, cfg.max_y, pw, ex)
            sx == get_calibrated_scaled_value(raw_x, cfg.min_x, cfg.max_x, ph, ey)
        IN  <<sy, RatSubFrom(ph - 1, sx)>>
    ELSE IF rot = 270 THEN
        LET sx == get_calibrated_scaled_value(raw_x, cfg.min_x, cfg.max_x, ph, ey)
            sy == get_calibrated_scaled_value(raw_y, cfg.min_y, cfg.max_y, pw, ex)
        IN  <<RatSubFrom(ph - 1, sx), RatSubFrom(pw - 1, sy)>>
    ELSE <<RatNorm((raw_x - cfg.min_x) * pw, cfg.max_x - cfg.min_x),
           RatNorm((raw_y - cfg.min_y) * ph, cfg.max_y - cfg.min_y)>>

\* A touch device: present (touch_device is not None), has_abs (its capabilities
\* list EV_ABS with ABS_X and ABS_Y), and the ranges of the two axes
TouchDevice(present, has_abs, min_x, max_x, min_y, max_y) ==
    [present |-> present, has_abs |-> has_abs,
     min_x |-> min_x, max_x |-> max_x, min_y |-> min_y, max_y |-> max_y]

\* The calibration factors read at lines 226-227: defined = FALSE when
\* lcars_constants has no CALIBRATION_ERROR_X_FACTOR / CALIBRATION_ERROR_Y_FACTOR
\* (reading them raises AttributeError); ex, ey are factor * BAR_HEIGHT
Calibration(defined, ex, ey) == [defined |-> defined, ex |-> ex, ey |-> ey]

\* the names lcars_constants.py defines for the touch transform
LcCalibration == Calibration(FALSE, RatInt(0), RatInt(0))

\* the transform with the min == max test on the X axis only
TransformTouchXOnly(rot, raw_x, raw_y, pw, ph, cfg, cal) ==
    LET plain == RotationRemap(rot, raw_x, raw_y, pw, ph) IN
    IF cfg.present /\ cfg.has_abs /\ cfg.max_x # cfg.min_x
    THEN IF ~cal.defined
         THEN [raised |-> TRUE, x |-> 0, y |-> 0]
         ELSE LET q == ScaledRemap(rot, raw_x, raw_y, pw, ph, cfg, cal.ex, cal.ey)
              IN  [raised |-> FALSE, x |-> IntTrunc(q[1]), y |-> IntTrunc(q[2])]
    ELSE [raised |-> FALSE, x |-> plain[1], y |-> plain[2]]

\* _transform_touch_coordinates (lines 175-297)
TransformTouch(rot, raw_x, raw_y, pw, ph, cfg, cal) ==
    LET plain == RotationRemap(rot, raw_x, raw_y, pw, ph) IN
    IF cfg.present /\ cfg.has_abs /\ cfg.max_x # cfg.min_x /\ cfg.max_y # cfg.min_y
    THEN IF ~cal.defined
         THEN [raised |-> TRUE, x |-> 0, y |-> 0]
         ELSE LET q == ScaledRemap(rot, raw_x, raw_y, pw, ph, cfg, cal.ex, cal.ey)
              IN  [raised |-> FALSE, x |-> IntTrunc(q[1]), y |-> IntTrunc(q[2])]
    ELSE [raised |-> FALSE, x |-> plain[1], y |-> plain[2]]

(***************************************************************************)
(* Buttons                                                                 *)
(***************************************************************************)
Descriptor(id, rect) == [id |-> id, rect |-> rect]

InRectStrict(rect, x, y) ==
    rect[1] < x /\ x < rect[3] /\ rect[2] < y /\ y < rect[4]

\* lines 353-354: x1 <= logical_x <= x2 and y1 <= logical_y <= y2
InRect(rect, x, y) ==
    rect[1] <= x /\ x <= rect[3] /\ rect[2] <= y /\ y <= rect[4]

\* lines 352-358: the index of the first descriptor whose rectangle contains the
\* point; 0 when there is none
FirstHit(buttons, x, y) ==
    LET hits == {i \in 1..Len(buttons) : InRect(buttons[i].rect, x, y)}
    IN  IF hits = {} THEN 0 ELSE CHOOSE i \in hits : \A j \in hits : i <= j

ButtonEffectAnyMode(button_id, mode, store) ==
    IF button_id = "btn_clear"
    THEN [mode |-> mode, store |-> <<>>, action_taken |-> TRUE]
    ELSE IF button_id = "btn_clock_mode"
    THEN [mode |-> "clock", store |-> store, action_taken |-> TRUE]
    ELSE IF button_id = "btn_events_mode"
    THEN [mode |-> "events", store |-> store, action_taken |-> TRUE]
    ELSE [mode |-> mode, store |-> store, action_taken |-> FALSE]

\* _handle_button_press (lines 300-320): the new mode and history, and
\* action_taken
ButtonEffect(button_id, mode, store) ==
    IF button_id = "btn_clear" /\ mode = "events"
    THEN [mode |-> mode, store |-> <<>>, action_taken |-> TRUE]
    ELSE IF button_id = "btn_clock_mode" /\ mode = "events"
    THEN [mode |-> "clock", store |-> store, action_taken |-> TRUE]
    ELSE IF button_id = "btn_events_mode" /\ mode = "clock"
    THEN [mode |-> "events", store |-> store, action_taken |-> TRUE]
    ELSE [mode |-> mode, store |-> store, action_taken |-> FALSE]

(***************************************************************************)
(* The main thread: the loop of main() and _process_touch_event            *)
(***************************************************************************)
\* lc.ROTATE, int(os.getenv("DISPLAY_ROTATE", 0))
ROTATE == 0
\* fb.width, fb.height: the touch device reports pixels of a square panel
FbWidth == MaxRaw + 1
FbHeight == MaxRaw + 1

\* pc is the position of the main thread, lx and ly the locals logical_x and
\* logical_y, sleep the microseconds slept by the time.sleep it last returned
\* from in this iteration
MainAt(pc) == [pc |-> pc, lx |-> 0, ly |-> 0, sleep |-> 0]

\* line 679: time.sleep(0.05); line 671: 1_000_000; line 672: max(0.01, ...)
EVENT_SLEEP_US == 50000
SECOND_US == 1000000
MIN_SLEEP_US == 10000

\* now.microsecond
Microseconds == {0, 1, 989999, 990000, 990001, 999999}

\* lines 670-672: actual_sleep_time, in microseconds
ClockSleep(us) ==
    IF SECOND_US - us > MIN_SLEEP_US THEN SECOND_US - us ELSE MIN_SLEEP_US

Slept(us) == [MainAt("loop_top") EXCEPT !.sleep = us]

MainRunsUnderHandler == Alive

\* lines 658-659: a signal handler runs on the main thread, so the code of main
\* stands still while an activation of bye is on the stack
MainRuns == Alive /\ byeStack = <<>>

\* line 324: _process_touch_event returns at once without a touch device
TouchEntry == IF touch_cfg.present THEN "drain" ELSE "touch_done"

\* line 663: the loop tests _exit_in_progress, then calls _process_touch_event
LoopTop ==
    /\ MainRuns /\ main.pc = "loop_top"
    /\ main' = IF exit_in_progress THEN MainAt("finally") ELSE MainAt(TouchEntry)
    /\ NoRefresh
    /\ pressed' = pressed
    /\ UNCHANGED <<globalVars, last_debug_touch_coords, touchVars, lay, byeVars, net>>

\* lines 334-338: read_one() returns an EV_ABS event with a value of V
ReadAbs(V) ==
    /\ MainRuns /\ main.pc = "drain"
    /\ \E v \in V :
          \/ last_touch_x' = Some(v) /\ last_touch_y' = last_touch_y
          \/ last_touch_y' = Some(v) /\ last_touch_x' = last_touch_x
    /\ NoRefresh
    /\ UNCHANGED <<globalVars, last_debug_touch_coords, touch_cfg, lay, byeVars, net,
                   main, pressed>>

\* lines 330-331: read_one() returns None
ReadNone ==
    /\ MainRuns /\ main.pc = "drain"
    /\ main' = MainAt("touch_done")
    /\ NoRefresh
    /\ UNCHANGED <<globalVars, last_debug_touch_coords, touchVars, lay, byeVars, net, pressed>>

\* lines 339-346: a BTN_TOUCH press with both raw coordinates known; an
\* exception of the transform is caught at line 369 and ends the drain
ReadTouchDown ==
    /\ MainRuns /\ main.pc = "drain"
    /\ last_touch_x # None /\ last_touch_y # None
    /\ LET r == TransformTouch(ROTATE, last_touch_x[1], last_touch_y[1],
                               FbWidth, FbHeight, touch_cfg, LcCalibration) IN
       main' = IF r.raised THEN MainAt("touch_done")
               ELSE [pc |-> IF debug_touch_enabled THEN "store_coords" ELSE "hit_test",
                     lx |-> r.x, ly |-> r.y, sleep |-> 0]
    /\ pressed' = <<>>
    /\ NoRefresh
    /\ UNCHANGED <<globalVars, last_debug_touch_coords, touchVars, lay, byeVars, net>>

\* line 348
StoreCoords ==
    /\ MainRuns /\ main.pc = "store_coords"
    /\ last_debug_touch_coords' = <<main.lx, main.ly>>
    /\ main' = [main EXCEPT !.pc = "hit_test"]
    /\ NoRefresh
    /\ UNCHANGED <<globalVars, touchVars, lay, byeVars, net, pressed>>

\* lines 350-364: the hit test and the action of the first button hit.  An
\* exception of refresh_display is caught at line 369 and ends the drain.
HitTest ==
    /\ MainRuns /\ main.pc = "hit_test"
    /\ LET i == FirstHit(active_buttons, main.lx, main.ly) IN
       IF i > 0
       THEN LET e == ButtonEffect(active_buttons[i].id, current_display_mode,
                                  messages_store) IN
            /\ pressed' = <<active_buttons[i].id>>
            /\ current_display_mode' = e.mode
            /\ messages_store' = e.store
            /\ IF e.action_taken
               THEN /\ RefreshDisplay("main", e.mode, e.store)
                    /\ main' = MainAt(IF RefreshRaises(e.mode) THEN "touch_done"
                                                                ELSE "drain")
               ELSE /\ ReadButtons("main")
                    /\ main' = MainAt("drain")
       ELSE /\ pressed' = <<>>
            /\ UNCHANGED <<current_display_mode, messages_store>>
            /\ IF debug_touch_enabled
               THEN /\ RefreshDisplay("main", current_display_mode, messages_store)
                    /\ main' = MainAt(IF RefreshRaises(current_display_mode)
                                      THEN "touch_done" ELSE "drain")
               ELSE /\ ReadButtons("main")
                    /\ main' = MainAt("drain")
    /\ UNCHANGED <<debug_layout_enabled, debug_touch_enabled, log_control_messages_enabled,
                   last_debug_touch_coords, touchVars, lay, byeVars, net>>

\* lines 666-684: in clock mode the loop renders and sleeps to the next second,
\* otherwise it sleeps 50 ms; an exception of refresh_display is caught at line
\* 683 and the finally clause follows
ModeCheck ==
    /\ MainRuns /\ main.pc = "touch_done"
    /\ IF current_display_mode = "clock"
       THEN /\ RefreshDisplay("main", current_display_mode, messages_store)
            /\ IF RefreshRaises(current_display_mode)
               THEN main' = MainAt("finally")
               ELSE \E us \in Microseconds : main' = Slept(ClockSleep(us))
       ELSE /\ NoRefresh
            /\ main' = Slept(EVENT_SLEEP_US)
    /\ UNCHANGED <<globalVars, last_debug_touch_coords, touchVars, lay, byeVars, net, pressed>>

\* line 686: the finally clause calls bye()
Finally ==
    /\ MainRuns /\ main.pc = "finally"
    /\ main' = MainAt("in_finally")
    /\ byeStack' = <<"check">>
    /\ byeCalls' = byeCalls + 1
    /\ NoRefresh
    /\ UNCHANGED <<globalVars, last_debug_touch_coords, touchVars, lay, exit_in_progress,
                   signals, teardown, connected, fb_open, net, pressed>>

(***************************************************************************)
(* Shutdown: bye, installed for SIGINT and SIGTERM (lines 639-659)         *)
(* A signal handler runs on the main thread, on top of whatever the main   *)
(* thread is executing, a running bye included.                            *)
(***************************************************************************)
Top == byeStack[Len(byeStack)]
SetTop(pc) == byeStack' = [byeStack EXCEPT ![Len(byeStack)] = pc]

Signal ==
    /\ Alive /\ signals < MaxSignals
    /\ signals' = signals + 1
    /\ byeStack' = Append(byeStack, "check")
    /\ byeCalls' = byeCalls + 1
    /\ NoRefresh
    /\ UNCHANGED <<globalVars, last_debug_touch_coords, touchVars, lay, exit_in_progress,
                   teardown, connected, fb_open, net, main, pressed>>

\* sys.exit(0): SystemExit leaves every activation of bye; raised inside the try
\* of main it runs the finally clause, raised inside the finally clause it ends
\* the process
Unwind ==
    /\ byeStack' = <<>>
    /\ main' = IF main.pc \in {"finally", "in_finally"} THEN MainAt("exited")
               ELSE MainAt("finally")

\* lines 642-648: the guard, and loop_stop() telling the network thread to end
\* its loop, after which the thread takes no further message
ByeCheck ==
    /\ Alive /\ byeStack # <<>> /\ Top = "check"
    /\ IF exit_in_progress
       THEN Unwind /\ UNCHANGED <<exit_in_progress, net>>
       ELSE /\ exit_in_progress' = TRUE
            /\ main' = main
            /\ IF connected
               THEN net' = [net EXCEPT !.running = FALSE] /\ SetTop("join")
               ELSE net' = net /\ SetTop("blank")
    /\ NoRefresh
    /\ UNCHANGED <<globalVars, last_debug_touch_coords, touchVars, lay, signals, teardown,
                   byeCalls, connected, fb_open, pressed>>

\* line 648: loop_stop() then joins the network thread, which first finishes
\* the callback it is in
ByeJoin ==
    /\ Alive /\ byeStack # <<>> /\ Top = "join"
    /\ net.pc = "idle"
    /\ teardown' = [teardown EXCEPT !.loop_stop = @ + 1]
    /\ SetTop("blank")
    /\ NoRefresh
    /\ UNCHANGED <<globalVars, last_debug_touch_coords, touchVars, lay, exit_in_progress,
                   signals, byeCalls, connected, fb_open, net, main, pressed>>

\* line 649: blank() pushes a background frame; push returns at once when the
\* framebuffer is closed (framebuffer_utils.py lines 56-60, 84-86)
ByeBlank ==
    /\ Alive /\ byeStack # <<>> /\ Top = "blank"
    /\ IF fb_open
       THEN /\ display' = BlankFrame
            /\ teardown' = [teardown EXCEPT !.blank = @ + 1]
       ELSE UNCHANGED <<display, teardown>>
    /\ SetTop("touch_close")
    /\ renderCalls' = 0
    /\ UNCHANGED <<globalVars, last_debug_touch_coords, touchVars, lay, exit_in_progress,
                   signals, byeCalls, connected, fb_open, net, main, pressed,
                   active_buttons, abAccess>>

\* lines 650-655
ByeTouchClose ==
    /\ Alive /\ byeStack # <<>> /\ Top = "touch_close"
    /\ teardown' = IF touch_cfg.present
                   THEN [teardown EXCEPT !.touch_close = @ + 1]
                   ELSE teardown
    /\ SetTop("fb_close")
    /\ NoRefresh
    /\ UNCHANGED <<globalVars, last_debug_touch_coords, touchVars, lay, exit_in_progress,
                   signals, byeCalls, connected, fb_open, net, main, pressed>>

\* line 656: FB.close (framebuffer_utils.py lines 23-29) unmaps the memory and
\* closes the descriptor
ByeFbClose ==
    /\ Alive /\ byeStack # <<>> /\ Top = "fb_close"
    /\ fb_open' = FALSE
    /\ teardown' = [teardown EXCEPT !.fb_close = @ + 1]
    /\ SetTop("exit")
    /\ NoRefresh
    /\ UNCHANGED <<globalVars, last_debug_touch_coords, touchVars, lay, exit_in_progress,
                   signals, byeCalls, connected, net, main, pressed>>

\* line 657
ByeExit ==
    /\ Alive /\ byeStack # <<>> /\ Top = "exit"
    /\ Unwind
    /\ NoRefresh
    /\ UNCHANGED <<globalVars, last_debug_touch_coords, touchVars, lay, exit_in_progress,
                   signals, teardown, byeCalls, connected, fb_open, net, pressed>>

(***************************************************************************)
(* Spec: the running program, from the first iteration of the loop of      *)
(* main() (line 662) on: network thread started, signal handlers installed.*)
(***************************************************************************)
RawValues == 0..MaxRaw

\* the two ends of the raw range
EdgeRaw == {0, MaxRaw}

NoTouchDevice == TouchDevice(FALSE, FALSE, 0, 0, 0, 0)
PixelTouchDevice == TouchDevice(TRUE, FALSE, 0, 0, 0, 0)
AbsTouchDevice == TouchDevice(TRUE, TRUE, 0, MaxRaw, 0, MaxRaw)

NoTeardown == [loop_stop |-> 0, blank |-> 0, touch_close |-> 0, fb_close |-> 0]

\* the messages a broker delivers in Spec
Msgs ==
    { DataMsg(JsonObj("A", TsAbsent)),
      ControlMsg("mode-select", "clock"), ControlMsg("mode-select", "events"),
      ControlMsg("mode-select", "bogus"),
      ControlMsg("debug-touch", "enable"), ControlMsg("debug-touch", "disable") }

InitProcess ==
    /\ last_debug_touch_coords = None
    /\ last_touch_x = None /\ last_touch_y = None
    /\ exit_in_progress = FALSE
    /\ connected = TRUE
    /\ fb_open = TRUE
    /\ display = BlankFrame
    /\ net = NetIdle
    /\ byeStack = <<>>
    /\ signals = 0
    /\ teardown = NoTeardown
    /\ byeCalls = 0
    /\ renderCalls = 0
    /\ pressed = <<>>
    /\ abAccess = {}

Init ==
    /\ InitProcess
    /\ lay = NoLayout
    /\ messages_store = <<>>
    /\ current_display_mode = "events"
    /\ debug_layout_enabled = FALSE
    /\ debug_touch_enabled = FALSE
    /\ log_control_messages_enabled = FALSE
    /\ active_buttons = <<>>
    /\ touch_cfg \in {NoTouchDevice, PixelTouchDevice, AbsTouchDevice}
    /\ main = MainAt("loop_top")

NetNext(M) ==
    \/ NetReceive(M)
    \/ NetData
    \/ NetDataRender
    \/ NetControl
    \/ NetDtClear
    \/ NetLog
    \/ NetRender
    \/ NetReturn

TouchNext(V) ==
    \/ ReadAbs(V)
    \/ ReadNone
    \/ ReadTouchDown
    \/ StoreCoords
    \/ HitTest

ByeNext ==
    \/ Signal
    \/ ByeCheck
    \/ ByeJoin
    \/ ByeBlank
    \/ ByeTouchClose
    \/ ByeFbClose
    \/ ByeExit

Next ==
    \/ NetNext(Msgs)
    \/ LoopTop
    \/ TouchNext(EdgeRaw)
    \/ ModeCheck
    \/ Finally
    \/ ByeNext

Spec == Init /\ [][Next]_vars

(***************************************************************************)
(* Properties of the running program (Spec)                                *)
(***************************************************************************)
Modes == {"events", "clock"}

BadModeSelect(m) ==
    /\ m.topic = [ns |-> "control", suffix |-> "mode-select"]
    /\ PayloadStr(m) \notin Modes

\* C2: the current mode is always exactly one of "events" and "clock", and a
\* mode-select command with any other payload leaves the mode unchanged.
C2_ModeIsEventsOrClock ==
    /\ [](current_display_mode \in Modes)
    /\ [][(net.pc = "recv" /\ net'.pc # "recv" /\ BadModeSelect(net.msg))
            => (current_display_mode' = current_display_mode /\ net'.pc = "log"
                /\ ~net'.needs_render)]_vars

\* a mode-select command with an unknown payload has been applied in clock mode
C2_Witness ==
    /\ net.pc = "log" /\ BadModeSelect(net.msg)
    /\ current_display_mode = "clock"

Exited == main.pc = "exited"

\* C4: when bye is invoked more than once, the teardown (network loop stopped,
\* blank frame pushed, touch device closed, framebuffer closed) is performed
\* exactly once before the process has exited.
C4_TeardownExactlyOnce ==
    (Exited /\ byeCalls >= 2 /\ touch_cfg.present)
        => teardown = [loop_stop |-> 1, blank |-> 1, touch_close |-> 1, fb_close |-> 1]

\* two signals, the second after the teardown of the first had finished: each
\* teardown step ran once
C4_Witness ==
    /\ Exited /\ signals = 2 /\ touch_cfg.present
    /\ teardown = [loop_stop |-> 1, blank |-> 1, touch_close |-> 1, fb_close |-> 1]

\* C5: the list of touchable buttons is read and mutated by the main thread only.
C5_ButtonsMainThreadOnly == abAccess \subseteq {"main"}

(***************************************************************************)
(* SpecMqtt: the network thread alone, with the payloads and timestamps a  *)
(* publisher can send; logging of control messages starts enabled          *)
(* (LOG_CONTROL_MESSAGES defaults to "true", line 64).                     *)
(***************************************************************************)
Timestamps ==
    { TsAbsent, TsStr(<<>>), TsStr(<<"1">>), TsStr(<<"1", "Z">>), TsStr(<<"x">>),
      TsNum(0), TsNum(5) }

MqttMsgs ==
    { DataMsg(JsonObj("A", ts)) : ts \in Timestamps }
    \cup { DataMsg(JsonObj(NoField, TsAbsent)), DataMsg(JsonObj("", TsStr(<<"1">>))),
           DataMsg(JsonOther), DataMsg(Raw("hello")),
           ControlMsg("clear-events", ""),
           ControlMsg("mode-select", "clock"), ControlMsg("mode-select", "events"),
           ControlMsg("log-control", "disable"), ControlMsg("log-control", "enable"),
           ControlMsg("debug-touch", "enable"), ControlMsg("debug-touch", "disable"),
           ControlMsg("debug-layout", "enable"),
           ControlMsg("debug-layout", "bogus"), ControlMsg("debug-touch", "bogus"),
           ControlMsg("log-control", "bogus"), ControlMsg("mode-select", "bogus"),
           ControlMsg("reboot", "now") }

InitMqtt ==
    /\ InitProcess
    /\ lay = NoLayout
    /\ messages_store = <<>>
    /\ current_display_mode = "events"
    /\ debug_layout_enabled = FALSE
    /\ debug_touch_enabled = FALSE
    /\ log_control_messages_enabled = TRUE
    /\ active_buttons = <<>>
    /\ touch_cfg = NoTouchDevice
    /\ main = MainAt("loop_top")

NextMqtt == NetNext(MqttMsgs)

SpecMqtt == InitMqtt /\ [][NextMqtt]_vars

\* C1: the history never holds more than MAX_MESSAGES_IN_STORE messages, and
\* every change of it either empties it, or appends one message, or empties it
\* and appends one message (a logged clear-events command); an append to a full
\* history removes exactly the oldest message and keeps the others in order.
C1_HistoryBounded ==
    /\ [](Len(messages_store) <= MAX_MESSAGES_IN_STORE)
    /\ [][messages_store' # messages_store =>
            \/ messages_store' = <<>>
            \/ /\ Len(messages_store') > 0
               /\ SubSeq(messages_store', 1, Len(messages_store') - 1)
                    = IF Len(messages_store) = MAX_MESSAGES_IN_STORE
                      THEN Tail(messages_store)
                      ELSE messages_store]_vars

\* a data message has just been appended to a full history
C1_Witness ==
    /\ net.pc = "render_check" /\ net.evicted
    /\ Len(messages_store) = MAX_MESSAGES_IN_STORE
    /\ messages_store[Len(messages_store)].text = net.msg.payload.message

StructuredData(m) == m.topic.ns = "data" /\ m.payload.fmt = "json_obj"
NoText(m) == m.payload.message \in {NoField, ""}

\* C9: a data message that is a JSON object without, or with empty, "message"
\* text is dropped: on_mqtt returns with history, mode and debug flags
\* unchanged and without calling refresh_display.
C9_MissingTextDropped ==
    [][(net.pc = "recv" /\ net'.pc # "recv" /\ StructuredData(net.msg) /\ NoText(net.msg))
        => /\ net'.pc = "ret"
           /\ renderCalls' = 0
           /\ UNCHANGED <<globalVars, last_debug_touch_coords, display>>]_vars

\* on_mqtt returns from a JSON object with empty text while the history holds
\* a message
C9_Witness ==
    /\ net.pc = "ret" /\ StructuredData(net.msg) /\ net.msg.payload.message = ""
    /\ Len(messages_store) > 0

\* the timestamp the Message of a structured payload is to carry: the parsed
\* one when the field parses, the current time otherwise
ExpectedTimestamp(ts) ==
    IF ts.kind = "str" /\ FromIsoFormat(IsoNormalise(ts.s)).ok
    THEN FromIsoFormat(IsoNormalise(ts.s)).dt
    ELSE Now

\* C10: when on_mqtt returns from a structured data message that carries text,
\* whatever its timestamp field holds, the Message has been appended (it is the
\* newest of the history) with the parsed timestamp or the current time.
C10_TimestampNeverPreventsAppend ==
    (net.pc = "ret" /\ StructuredData(net.msg) /\ ~NoText(net.msg))
        => /\ Len(messages_store) > 0
           /\ LET m == messages_store[Len(messages_store)] IN
              /\ m.text = net.msg.payload.message
              /\ m.topic = net.msg.topic
              /\ m.timestamp = ExpectedTimestamp(net.msg.payload.ts)

\* on_mqtt returns from a message whose timestamp does not parse, stored with
\* the current time
C10_Witness ==
    /\ net.pc = "ret" /\ StructuredData(net.msg)
    /\ net.msg.payload.ts = TsStr(<<"x">>)
    /\ Len(messages_store) > 0
    /\ messages_store[Len(messages_store)].text = "A"
    /\ messages_store[Len(messages_store)].timestamp = Now

(***************************************************************************)
(* SpecTouch: the main thread alone, started with a list of button         *)
(* descriptors as a renderer registers them and a touch device that        *)
(* reports the points of the panel.                                        *)
(***************************************************************************)
ButtonIds == {"btn_clear", "btn_relative", "btn_clock_mode", "btn_events_mode", "btn_other"}

RectA == <<0, 0, 1, 1>>
RectB == <<1, 1, 2, 2>>

ButtonLists ==
    {<<>>}
    \cup { <<Descriptor(i, r)>> : i \in ButtonIds, r \in {RectA, RectB} }
    \cup { <<Descriptor(i, RectA), Descriptor(j, RectB)>> : i \in ButtonIds, j \in ButtonIds }
    \cup { <<Descriptor(i, RectB), Descriptor(j, RectA)>> : i \in ButtonIds, j \in ButtonIds }

MsgA == Message("A", "Unknown", "info", Now, [ns |-> "data", suffix |-> "sensor"])

InitTouch ==
    /\ InitProcess
    /\ lay = NoLayout
    /\ messages_store \in {<<>>, <<MsgA>>}
    /\ current_display_mode \in Modes
    /\ debug_layout_enabled = FALSE
    /\ debug_touch_enabled \in BOOLEAN
    /\ log_control_messages_enabled = TRUE
    /\ active_buttons \in ButtonLists
    /\ touch_cfg \in {PixelTouchDevice, AbsTouchDevice}
    /\ main = MainAt("loop_top")

NextTouch ==
    \/ LoopTop
    \/ TouchNext(RawValues)
    \/ ModeCheck
    \/ Finally
    \/ ByeCheck
    \/ ByeJoin
    \/ ByeBlank
    \/ ByeTouchClose
    \/ ByeFbClose
    \/ ByeExit

SpecTouch == InitTouch /\ [][NextTouch]_vars

HitTestStep == main.pc = "hit_test" /\ main'.pc # "hit_test"

C7_HitTestInclusiveFirst ==
    [][HitTestStep =>
        LET x == main.lx
            y == main.ly
            In(i) == /\ active_buttons[i].rect[1] <= x /\ x <= active_buttons[i].rect[3]
                     /\ active_buttons[i].rect[2] <= y /\ y <= active_buttons[i].rect[4]
        IN  /\ \A i \in 1..Len(active_buttons) :
                 (In(i) /\ \A j \in 1..(i - 1) : ~In(j))
                     => pressed' = <<active_buttons[i].id>>
            /\ (\A i \in 1..Len(active_buttons) : ~In(i)) => pressed' = <<>>]_vars

\* a touch-down at (1, 1), a corner of both rectangles, invoked the first
\* descriptor of the list only
C7_Witness ==
    /\ main.pc = "drain"
    /\ touch_cfg = PixelTouchDevice
    /\ last_touch_x = Some(1) /\ last_touch_y = Some(1)
    /\ active_buttons = <<Descriptor("btn_relative", RectB), Descriptor("btn_other", RectA)>>
    /\ pressed = <<"btn_relative">>

(***************************************************************************)
(* SpecLayout: the renderers of the bars, each called with the arguments   *)
(* of its own signature, on screens of every width up to MaxWidth.         *)
(***************************************************************************)
MaxWidth == 150
ScreenHeight == 60

Widths == 0..MaxWidth
Fonts ==
    { [title_w |-> 1, body_w |-> 1, bar_height |-> 4],
      [title_w |-> 2, body_w |-> 1, bar_height |-> 6] }

InitLayout ==
    /\ InitProcess
    /\ lay = NoLayout
    /\ messages_store = <<>>
    /\ current_display_mode = "events"
    /\ debug_layout_enabled = FALSE
    /\ debug_touch_enabled = FALSE
    /\ log_control_messages_enabled = TRUE
    /\ active_buttons = <<>>
    /\ touch_cfg = NoTouchDevice
    /\ main = MainAt("loop_top")

LayoutFrame ==
    UNCHANGED <<globalVars, last_debug_touch_coords, touchVars, byeVars, display, net,
                main, renderCalls, pressed, abAccess>>

\* clock_mode_buttons_config (clock_mode.py lines 156-158)
clock_mode_buttons_config ==
    << [text |-> "EVENTS", color |-> "COLOR_BUTTON_RELATIVE", id |-> "btn_events_mode"] >>

\* the label and button list each panel renderer passes (event_log_mode.py line
\* 142; clock_mode.py lines 159-161, with a time zone of "UTC")
BarContents ==
    { [label_text |-> "MQTT STREAM", buttons_config |-> event_log_buttons],
      [label_text |-> "UTC", buttons_config |-> clock_mode_buttons_config] }

\* render_bottom_bar(draw, WIDTH, HEIGHT, label_text, buttons_config,
\* debug_layout_enabled) on its own
RenderBottomBar ==
    /\ \E w \in Widths, fm \in Fonts, c \in BarContents :
          lay' = [what |-> "bottom_bar", width |-> w, fm |-> fm,
                  label_text |-> c.label_text, buttons_config |-> c.buttons_config,
                  bar |-> render_bottom_bar(w, ScreenHeight, c.label_text,
                                            c.buttons_config, fm),
                  completed |-> TRUE]
    /\ active_buttons' = active_buttons
    /\ LayoutFrame

\* a render pass in events mode: active_buttons.clear() (mqtt_fb_panel.py line
\* 103), then render_event_log_full_panel(img, draw, messages_store,
\* debug_layout_enabled) (event_log_mode.py lines 134-145), which receives no
\* list to register descriptors in and passes none on
RenderEventLogFullPanel ==
    /\ Binds(4, {}, render_event_log_full_panel_params, 0)
    /\ Binds(4, {}, render_top_bar_params, 1)
    /\ Binds(6, {}, render_bottom_bar_params, 1)
    /\ \E w \in Widths, fm \in Fonts :
          lay' = [what |-> "event_log_panel", width |-> w, fm |-> fm,
                  bar |-> render_bottom_bar(w, ScreenHeight, "MQTT STREAM",
                                            event_log_buttons, fm),
                  completed |-> TRUE]
    /\ active_buttons' = <<>>
    /\ LayoutFrame

\* a render pass in clock mode: active_buttons.clear(), then
\* render_clock_full_panel(img, draw, active_buttons, debug_layout_enabled)
\* (clock_mode.py lines 153-166), whose call of render_bottom_bar raises
RenderClockFullPanel ==
    /\ Binds(4, {}, render_clock_full_panel_params, 0)
    /\ \E w \in Widths, fm \in Fonts :
          lay' = [what |-> "clock_panel", width |-> w, fm |-> fm,
                  bar |-> IF ClockPanelRaises THEN [NoBar EXCEPT !.raised = TRUE]
                          ELSE render_bottom_bar(w, ScreenHeight, "", <<>>, fm),
                  completed |-> ~ClockPanelRaises]
    /\ active_buttons' = <<>>
    /\ LayoutFrame

\* the titles the panel renderers pass (event_log_mode.py line 135, clock_mode.py
\* line 153)
Titles == {"EVENT LOG", "CURRENT TIME"}

\* render_top_bar(draw, WIDTH, title, debug_layout_enabled) on its own
RenderTopBar ==
    /\ \E w \in Widths, fm \in Fonts, title \in Titles :
          lay' = [what |-> "top_bar", width |-> w, fm |-> fm, title_text |-> title,
                  top |-> render_top_bar(w, title, fm),
                  bar |-> NoBar, completed |-> TRUE]
    /\ active_buttons' = active_buttons
    /\ LayoutFrame

NextLayout ==
    \/ RenderTopBar
    \/ RenderBottomBar
    \/ RenderEventLogFullPanel
    \/ RenderClockFullPanel

SpecLayout == InitLayout /\ [][NextLayout]_vars

\* the rectangle of a drawn button
DrawnRect(bar, i) ==
    <<bar.buttons[i].x, bar.y, bar.buttons[i].x + bar.buttons[i].w, bar.y + bar.h>>

\* C6: after a completed render pass the descriptor list holds exactly one
\* descriptor, with the on-screen rectangle, for each button drawn in the pass.
C6_DescriptorPerDrawnButton ==
    (lay.completed /\ lay.what \in {"event_log_panel", "clock_panel"})
        => /\ Len(active_buttons) = Len(lay.bar.buttons)
           /\ \A i \in 1..Len(active_buttons) :
                 active_buttons[i].rect = DrawnRect(lay.bar, i)

\* the x at which the button group would start, and the end of the label, from
\* the widths of the texts
GroupStartX(l) ==
    l.width - PADDING - l.fm.bar_height - PADDING
        - ((Len("CLEAR") + Len("RELATIVE") + Len("CLOCK")) * l.fm.body_w
           + 3 * 2 * BUTTON_PADDING_X + 2 * PADDING)
LabelEndX(l) == PADDING + l.fm.bar_height + PADDING + Len("MQTT STREAM") * l.fm.title_w

\* C8: whenever the start of the button group lies to the left of the end of
\* the label, render_bottom_bar draws no button, the descriptor list is empty
\* and the call completes without raising.
C8_NarrowBarSkipsButtons ==
    (lay.what \in {"bottom_bar", "event_log_panel"} /\ GroupStartX(lay) < LabelEndX(lay))
        => /\ lay.bar.buttons = <<>>
           /\ active_buttons = <<>>
           /\ ~lay.bar.raised /\ lay.completed

\* a screen wide enough for both terminators and the label, on which the
\* button group would start inside the label
C8_Witness ==
    /\ lay.what = "bottom_bar" /\ lay.completed
    /\ GroupStartX(lay) < LabelEndX(lay) /\ GroupStartX(lay) > PADDING + lay.fm.bar_height
    /\ lay.bar.right_terminator # <<>>
    /\ lay.bar.buttons = <<>>

(***************************************************************************)
(* Control commands that are not understood (SpecMqtt)                     *)
(***************************************************************************)
PayloadCommands == {"debug-layout", "debug-touch", "log-control", "mode-select"}
Commands == PayloadCommands \cup {"clear-events"}

\* a control message with an unknown suffix, or with a suffix that reads its
\* payload and a payload it does not know
Unrecognised(m) ==
    /\ m.topic.ns = "control"
    /\ \/ m.topic.suffix \notin Commands
       \/ /\ m.topic.suffix \in PayloadCommands
          /\ PayloadStr(m) \notin {"enable", "disable", "", "events", "clock"}

\* C11: while on_mqtt handles a control message with an unrecognised suffix, or
\* a recognised suffix with an unrecognised payload, no step changes a debug
\* flag, the logging flag or the mode, the history is not cleared (at most the
\* command is logged to it), and the callback goes on to return: an exception
\* of the render is caught and the process keeps running.
C11_UnrecognisedCommandIgnored ==
    [][(net.pc \in {"recv", "log", "render"} /\ Unrecognised(net.msg)) =>
        /\ UNCHANGED <<debug_layout_enabled, debug_touch_enabled,
                       log_control_messages_enabled, current_display_mode,
                       last_debug_touch_coords, main, exit_in_progress>>
        /\ \/ messages_store' = messages_store
           \/ /\ net.pc = "log"
              /\ Len(messages_store') >= Len(messages_store)
              /\ messages_store'[Len(messages_store')].importance = "control"
        /\ net'.pc = (IF net.pc = "recv" THEN "log"
                      ELSE IF net.pc = "log" /\ net'.needs_render THEN "render"
                      ELSE "ret")]_vars

\* on_mqtt returns from "debug-layout bogus": the render it asked for was
\* called, layout debugging is still enabled and the history is kept
C11_Witness ==
    /\ net.pc = "ret" /\ renderCalls = 1
    /\ net.msg = ControlMsg("debug-layout", "bogus")
    /\ debug_layout_enabled
    /\ Len(messages_store) = MAX_MESSAGES_IN_STORE

(***************************************************************************)
(* The iterations of the main loop (Spec)                                  *)
(***************************************************************************)
\* the main thread leaves line 666 by a step of its own (not by a signal
\* handler's SystemExit)
ModeCheckStep ==
    /\ main.pc = "touch_done" /\ main'.pc # "touch_done"
    /\ byeStack = <<>> /\ byeStack' = <<>>

\* C12: in each iteration, after the touch drain: in clock mode the loop calls
\* refresh_display exactly once and then sleeps to the next whole second, at
\* least 10 ms and at most 1 s; in events mode it renders nothing and sleeps
\* 50 ms; either way the next iteration follows.
C12_LoopRenderAndSleep ==
    [][ModeCheckStep =>
        /\ main'.pc = "loop_top"
        /\ IF current_display_mode = "clock"
           THEN /\ renderCalls' = 1
                /\ main'.sleep >= 10000 /\ main'.sleep <= 1000000
           ELSE /\ renderCalls' = 0
                /\ main'.sleep = 50000]_vars

\* an iteration in events mode has ended with the 50 ms sleep and no render
C12_Witness ==
    /\ main.pc = "loop_top" /\ main.sleep = 50000
    /\ current_display_mode = "events" /\ renderCalls = 0
    /\ byeStack = <<>>

(***************************************************************************)
(* SpecStop: the main loop, one touch value, two messages and the signals, *)
(* with both threads scheduled fairly: a thread that can take a step of    *)
(* its own code eventually takes one.  Inputs (messages, touch events,     *)
(* signals) are not obliged to arrive.                                     *)
(***************************************************************************)
StopMsgs == { DataMsg(JsonObj("A", TsAbsent)), ControlMsg("mode-select", "clock") }

InitStop ==
    /\ InitProcess
    /\ lay = NoLayout
    /\ messages_store = <<>>
    /\ current_display_mode = "events"
    /\ debug_layout_enabled = FALSE
    /\ debug_touch_enabled = FALSE
    /\ log_control_messages_enabled = FALSE
    /\ active_buttons = <<>>
    /\ touch_cfg \in {NoTouchDevice, PixelTouchDevice}
    /\ main = MainAt("loop_top")

\* the steps of the network thread that need no input
NetProgress ==
    \/ NetData
    \/ NetDataRender
    \/ NetControl
    \/ NetLog
    \/ NetRender
    \/ NetReturn

\* the steps of the main thread that need no input: the loop test, the finally
\* clause and the statements of bye
MainProgress ==
    \/ LoopTop
    \/ Finally
    \/ ByeCheck
    \/ ByeJoin
    \/ ByeBlank
    \/ ByeTouchClose
    \/ ByeFbClose
    \/ ByeExit

NextStop ==
    \/ NetReceive(StopMsgs)
    \/ NetProgress
    \/ MainProgress
    \/ Signal
    \/ ReadAbs({0})
    \/ ReadNone
    \/ ReadTouchDown
    \/ HitTest
    \/ ModeCheck

SpecStop ==
    InitStop /\ [][NextStop]_vars /\ WF_vars(NetProgress) /\ WF_vars(MainProgress)

\* the main thread has left the while loop of line 663
LoopEnded == main.pc \in {"finally", "in_finally", "exited"}

\* C13: the shutdown flag is tested at the top of every iteration of the main
\* loop: once the flag is set the loop starts no further iteration (it drains no
\* touch event and calls no render), and under fair scheduling the main loop
\* eventually terminates.
C13_FlagStopsLoop ==
    /\ [][exit_in_progress =>
            /\ last_touch_x' = last_touch_x /\ last_touch_y' = last_touch_y
            /\ main' # main => (LoopEnded' /\ renderCalls' = 0)]_vars
    /\ (exit_in_progress ~> LoopEnded)

\* a signal arrived after the loop had read a touch coordinate, bye set the flag and
\* tore down, and the process has exited
C13_Witness ==
    /\ exit_in_progress /\ Exited
    /\ signals = 1 /\ byeCalls = 2
    /\ last_touch_x # None /\ last_touch_y = None
    /\ teardown.fb_close = 1

(***************************************************************************)
(* The display sink (Spec): display is the frame last handed to push       *)
(***************************************************************************)
\* C14: every render pass (each call of refresh_display, on either thread, in
\* either mode) hands exactly one complete frame to the display sink, after all
\* drawing of that pass has finished: when the call is over, the sink holds the
\* frame of the mode and history the pass drew.
C14_RenderPushesFrame ==
    [][(renderCalls' = 1 /\ fb_open) =>
        display' = PanelFrame(current_display_mode', messages_store')]_vars

\* the network thread has appended a message and called refresh_display, and
\* the sink still holds the frame from before
C14_Witness ==
    /\ renderCalls = 1 /\ net.pc = "ret" /\ net.msg.topic.ns = "data"
    /\ messages_store # <<>> /\ current_display_mode = "events"
    /\ display = BlankFrame /\ fb_open

(***************************************************************************)
(* SpecLog: the message area of the event log (event_log_mode.py)          *)
(* A text is the sequence of chunks textwrap splits it into: words and     *)
(* runs of whitespace, each with its number of characters.  A source is a  *)
(* sequence of characters.  The font is fixed-pitch: fm.body_w pixels per  *)
(* character of BODY_FONT, fm.body_size its size, fm.bar_height BAR_HEIGHT.*)
(***************************************************************************)
Word(n) == [ws |-> FALSE, n |-> n]
Space == [ws |-> TRUE, n |-> 1]

\* str.strip() == '' for a chunk
Blank(chunk) == chunk.ws \/ chunk.n = 0

RECURSIVE FillLine(_, _, _, _)
\* textwrap.TextWrapper._wrap_chunks, the inner loop: chunks are taken while
\* they fit in the width
FillLine(chunks, width, cur_line, cur_len) ==
    IF chunks # <<>> /\ cur_len + Head(chunks).n <= width
    THEN FillLine(Tail(chunks), width, Append(cur_line, Head(chunks)),
                  cur_len + Head(chunks).n)
    ELSE [line |-> cur_line, len |-> cur_len, rest |-> chunks]

RECURSIVE WrapChunks(_, _, _)
\* textwrap.TextWrapper._wrap_chunks with the defaults of textwrap.wrap
\* (drop_whitespace, break_long_words): whitespace at the start of a line but
\* the first is dropped, a chunk longer than the width is cut at the space left
\* (_handle_long_word), one blank chunk at the end of the line is dropped, and
\* an empty line is not emitted
WrapChunks(chunks, width, lines) ==
    IF chunks = <<>> THEN lines
    ELSE LET c0 == IF Blank(Head(chunks)) /\ lines # <<>> THEN Tail(chunks) ELSE chunks
             f == FillLine(c0, width, <<>>, 0)
             long == f.rest # <<>> /\ Head(f.rest).n > width
             space_left == IF width < 1 THEN 1 ELSE width - f.len
             cut == [Head(f.rest) EXCEPT !.n = space_left]
             left == [Head(f.rest) EXCEPT !.n = @ - space_left]
             line == IF long THEN Append(f.line, cut) ELSE f.line
             rest == IF long THEN <<left>> \o Tail(f.rest) ELSE f.rest
             kept == IF line # <<>> /\ Blank(line[Len(line)])
                     THEN SubSeq(line, 1, Len(line) - 1) ELSE line
         IN  WrapChunks(rest, width, IF kept = <<>> THEN lines ELSE Append(lines, kept))

\* textwrap.wrap(text, width)
Wrap(text, width) == WrapChunks(text, width, <<>>)

\* datetime.strftime("%H:%M:%S")
StrfTime(ts) == <<ts.hour, ts.minute, ts.second>>

Dots == <<".", ".", ".">>

\* _calculate_message_area_layout (lines 13-44) for a screen of WIDTH x HEIGHT
CalculateMessageAreaLayout(WIDTH, HEIGHT, fm) ==
    LET y_start == PADDING + fm.bar_height + PADDING
        y_end == HEIGHT - PADDING - fm.bar_height - PADDING
        m_char_width == fm.body_w
        by_width == WIDTH \div 4
        by_chars == 20 * m_char_width + PADDING
        col_source_width == IF by_width < by_chars THEN by_width ELSE by_chars
        col_time_width == 8 * fm.body_w + PADDING
        col_source_x == PADDING * 2
        col_message_x == col_source_x + col_source_width + PADDING
    IN  [message_area_y_start |-> y_start,
         message_area_y_end |-> y_end,
         message_area_height |-> y_end - y_start,
         message_line_height |-> fm.body_size + 4,
         avg_char_width_message |-> fm.body_w,
         col_message_width |->
             (WIDTH - PADDING * 2 - col_time_width - PADDING) - col_message_x]

\* lines 50-65: the lines of one message
MessageLines(msg_obj, layout) ==
    LET text == msg_obj.text
        wrapped == IF layout.avg_char_width_message > 0 /\ layout.col_message_width > 0
                   THEN LET q == layout.col_message_width \div layout.avg_char_width_message
                        IN  Wrap(text, IF q > 1 THEN q ELSE 1)
                   ELSE <<text>>
    IN  IF wrapped = <<>> THEN <<text>> ELSE wrapped

RECURSIVE ProcessMessagesForDisplay(_, _)
\* _process_messages_for_display (lines 46-78)
ProcessMessagesForDisplay(messages_to_process, layout) ==
    IF messages_to_process = <<>> THEN <<>>
    ELSE LET n == Len(messages_to_process)
             msg_obj == messages_to_process[n]
             source_text == IF Len(msg_obj.source) > 20
                            THEN SubSeq(msg_obj.source, 1, 17) \o Dots
                            ELSE msg_obj.source
             wrapped == MessageLines(msg_obj, layout)
         IN  ProcessMessagesForDisplay(SubSeq(messages_to_process, 1, n - 1), layout)
             \o [i \in 1..Len(wrapped) |->
                    [source |-> IF i = 1 THEN source_text ELSE <<>>,
                     msg_part |-> wrapped[i],
                     time |-> IF i = 1 THEN StrfTime(msg_obj.timestamp) ELSE <<>>,
                     importance |-> msg_obj.importance]]

FirstLines(lines, n) == SubSeq(lines, 1, IF n < Len(lines) THEN n ELSE Len(lines))

\* line 112: processed_message_lines[-max_displayable_message_lines:]
LastLines(lines, n) ==
    SubSeq(lines, (IF n < Len(lines) THEN Len(lines) - n ELSE 0) + 1, Len(lines))

\* render_event_log_content_area (lines 80-132): the lines drawn, each with its y
RenderEventLogContentArea(layout, store, fm) ==
    LET processed == ProcessMessagesForDisplay(store, layout)
        max_lines == IF layout.message_line_height > 0 /\ layout.message_area_height > 0
                     THEN layout.message_area_height \div layout.message_line_height
                     ELSE 0
        to_render == IF max_lines > 0 THEN LastLines(processed, max_lines) ELSE <<>>
        y(i) == layout.message_area_y_start + (i - 1) * layout.message_line_height
        breaks == {i \in 1..Len(to_render) : y(i) + fm.body_size > layout.message_area_y_end}
        n == IF breaks = {} THEN Len(to_render)
             ELSE (CHOOSE i \in breaks : \A j \in breaks : i <= j) - 1
    IN  [processed |-> processed,
         drawn |-> [i \in 1..n |-> [y |-> y(i), line |-> to_render[i]]]]

\* messages in the history of SpecLog, and the tallest screen
MaxHistory == 2
MaxLogHeight == 50

LogSource == <<"h", "u", "b">>
LongSource == [i \in 1..21 |-> "x"]

\* the history entries of SpecLog: the texts "", "a", "a b", "abc" and " "
LogMessages ==
    { [text |-> <<>>, source |-> LogSource, importance |-> "info",
       timestamp |-> [hour |-> 1, minute |-> 2, second |-> 3, microsecond |-> 4]],
      [text |-> <<Word(1)>>, source |-> LongSource, importance |-> "info",
       timestamp |-> [hour |-> 1, minute |-> 2, second |-> 3, microsecond |-> 4]],
      [text |-> <<Word(1), Space, Word(1)>>, source |-> LogSource, importance |-> "error",
       timestamp |-> [hour |-> 1, minute |-> 2, second |-> 3, microsecond |-> 4]],
      [text |-> <<Word(3)>>, source |-> LogSource, importance |-> "control",
       timestamp |-> [hour |-> 23, minute |-> 59, second |-> 59, microsecond |-> 0]],
      [text |-> <<Space>>, source |-> LogSource, importance |-> "warning",
       timestamp |-> [hour |-> 1, minute |-> 2, second |-> 3, microsecond |-> 4]] }

Histories == UNION {[1..n -> LogMessages] : n \in 0..MaxHistory}

\* screens on which the message column is -1, 1, 2 and 4 pixels wide
LogWidths == {56, 58, 60, 62}
LogHeights == 26..MaxLogHeight
LogFonts ==
    { [body_w |-> 1, body_size |-> 1, bar_height |-> 4],
      [body_w |-> 1, body_size |-> 4, bar_height |-> 4] }

\* the globals of InitLayout, and the arguments of one call
InitLog ==
    /\ InitProcess
    /\ messages_store = <<>>
    /\ current_display_mode = "events"
    /\ debug_layout_enabled = FALSE
    /\ debug_touch_enabled = FALSE
    /\ log_control_messages_enabled = TRUE
    /\ active_buttons = <<>>
    /\ touch_cfg = NoTouchDevice
    /\ main = MainAt("loop_top")
    /\ \E store \in Histories, w \in LogWidths, h \in LogHeights, fm \in LogFonts :
          lay = [what |-> "content_area_call", store |-> store, fm |-> fm,
                 layout |-> CalculateMessageAreaLayout(w, h, fm)]

\* render_event_log_content_area(draw, layout, messages_store, ...)
RenderContentArea ==
    /\ lay.what = "content_area_call"
    /\ lay' = [what |-> "content_area", store |-> lay.store, fm |-> lay.fm,
               layout |-> lay.layout,
               area |-> RenderEventLogContentArea(lay.layout, lay.store, lay.fm)]
    /\ active_buttons' = active_buttons
    /\ LayoutFrame

SpecLog == InitLog /\ [][RenderContentArea]_vars

Floor(a, b) == a \div b

\* C15: for every history and viewport, the lines drawn in the message area are
\* exactly the last min(C, L) lines of the wrapped history, in chronological
\* order, where L is the number of wrapped lines and C =
\* floor(viewportHeight / lineHeight); no line of that slice is dropped by the
\* lower-bound check, and nothing is drawn when C = 0.
C15_LastLinesDrawn ==
    lay.what = "content_area" =>
        LET wrapped == lay.area.processed
            L == Len(wrapped)
            C == Floor(lay.layout.message_area_height, lay.layout.message_line_height)
            k == IF C <= 0 THEN 0 ELSE IF C < L THEN C ELSE L
            drawn == lay.area.drawn
        IN  /\ Len(drawn) = k
            /\ \A i \in 1..k : drawn[i].line = wrapped[L - k + i]

\* a history of five wrapped lines ("abc" on a column of one character, then
\* "a b") on a viewport that holds three
C15_Witness ==
    /\ lay.what = "content_area"
    /\ Len(lay.store) = 2 /\ Len(lay.area.processed) = 5
    /\ lay.layout.message_area_height \div lay.layout.message_line_height = 3
    /\ Len(lay.area.drawn) = 3
    /\ lay.area.drawn[1].line.msg_part = <<Word(1)>>
    /\ lay.area.drawn[1].line.source = <<>>
    /\ lay.area.drawn[2].line.source = LogSource

(***************************************************************************)
(* The geometry of the bottom bar (SpecLayout)                             *)
(* A shape drawn at x with width w covers the x coordinates x .. x + w.    *)
(***************************************************************************)
Disjoint(x1, w1, x2, w2) == x1 + w1 < x2 \/ x2 + w2 < x1

\* the width of the text of the i-th button drawn in the bar of l
ButtonTextWidth(l, i) == Len(l.bar.buttons[i].text) * l.fm.body_w

\* C16: whenever the button group of the bottom bar is drawn, the first button
\* starts at screenWidth - padding - terminatorWidth - padding -
\* totalButtonsWidth, each button is textWidth + 2 x buttonPadding wide,
\* consecutive buttons are separated by exactly padding, and the last button
\* ends exactly padding left of the right terminator; hence no two buttons
\* overlap and no button overlaps the label, the filler segment or a terminator.
C16_ButtonGroupGeometry ==
    (lay.what \in {"bottom_bar", "event_log_panel"} /\ lay.bar.buttons # <<>>) =>
        LET b == lay.bar.buttons
            n == Len(b)
            th == lay.fm.bar_height
        IN  /\ b[1].x = GroupStartX(lay)
            /\ \A i \in 1..n : b[i].w = ButtonTextWidth(lay, i) + 2 * BUTTON_PADDING_X
            /\ \A i \in 1..(n - 1) : b[i + 1].x = b[i].x + b[i].w + PADDING
            /\ lay.bar.right_terminator # <<>>
            /\ b[n].x + b[n].w + PADDING = lay.bar.right_terminator[1]
            /\ \A i, j \in 1..n : i # j => Disjoint(b[i].x, b[i].w, b[j].x, b[j].w)
            /\ \A i \in 1..n :
                  /\ Disjoint(b[i].x, b[i].w, lay.bar.label.x, lay.bar.label.w)
                  /\ Disjoint(b[i].x, b[i].w, PADDING, th)
                  /\ Disjoint(b[i].x, b[i].w, lay.bar.right_terminator[1], th)
                  /\ \A k \in 1..Len(lay.bar.fill) :
                        Disjoint(b[i].x, b[i].w, lay.bar.fill[k].x, lay.bar.fill[k].w)

\* the three buttons drawn on the widest screen, with a filler segment between
\* the label and the group
C16_Witness ==
    /\ lay.what = "bottom_bar" /\ lay.width = MaxWidth
    /\ Len(lay.bar.buttons) = 3 /\ lay.bar.fill # <<>>
    /\ lay.bar.buttons[3].text = "CLOCK"

(***************************************************************************)
(* The geometry of the top bar (SpecLayout)                                *)
(***************************************************************************)
\* the distance between the two terminators of the top bar drawn in l
TerminatorDistance(l) ==
    l.top.right_terminator.x - (l.top.left_terminator.x + l.top.left_terminator.w)

\* what is left of that distance after the title and k paddings
FillerSpace(l, k) == TerminatorDistance(l) - l.top.title[1].w - k * PADDING

\* C17 as stated: in the top bar the filler segment's width equals (distance
\* between the two terminators) - (title width) - 2 x padding, and the filler
\* is omitted exactly when that value is <= 0, the title being drawn in either
\* case.
C17_FillerWidthTwoPaddings ==
    lay.what = "top_bar" =>
        /\ Len(lay.top.title) = 1
        /\ IF FillerSpace(lay, 2) <= 0
           THEN lay.top.segment = <<>>
           ELSE /\ Len(lay.top.segment) = 1
                /\ lay.top.segment[1].w = FillerSpace(lay, 2)

\* C17, amended: the filler segment's width equals (distance between the two
\* terminators) - (title width) - 3 x padding (one padding on either side of
\* the filler and one between the title and the right terminator), and the
\* filler is omitted exactly when that value is <= 0, the title being drawn in
\* either case.
C17_FillerWidthThreePaddings ==
    lay.what = "top_bar" =>
        /\ Len(lay.top.title) = 1
        /\ IF FillerSpace(lay, 3) <= 0
           THEN lay.top.segment = <<>>
           ELSE /\ Len(lay.top.segment) = 1
                /\ lay.top.segment[1].w = FillerSpace(lay, 3)
                /\ lay.top.segment[1].x
                      = lay.top.left_terminator.x + lay.top.left_terminator.w + PADDING
                /\ lay.top.segment[1].x + lay.top.segment[1].w + PADDING
                      = lay.top.title[1].x
        /\ lay.top.title[1].x + lay.top.title[1].w + PADDING = lay.top.right_terminator.x

\* a top bar whose terminators are exactly a title and three paddings apart:
\* no filler, the title drawn
C17_Witness ==
    /\ lay.what = "top_bar" /\ FillerSpace(lay, 3) = 0
    /\ lay.top.segment = <<>> /\ Len(lay.top.title) = 1

(***************************************************************************)
(* The content of the bars (SpecLayout)                                    *)
(***************************************************************************)
\* C18: the bars show the content their caller passes: render_top_bar draws the
\* given title, and render_bottom_bar draws the given label and lays out
\* exactly the buttons of the given list, in the given order with the given
\* text and colour (event log: CLEAR, RELATIVE, CLOCK; clock: only EVENTS).
C18_BarsShowGivenContent ==
    /\ lay.what = "top_bar" => lay.top.title[1].text = lay.title_text
    /\ lay.what = "bottom_bar" =>
          /\ lay.bar.label.text = lay.label_text
          /\ lay.bar.buttons # <<>> =>
                /\ Len(lay.bar.buttons) = Len(lay.buttons_config)
                /\ \A i \in 1..Len(lay.bar.buttons) :
                      /\ lay.bar.buttons[i].text = lay.buttons_config[i].text
                      /\ lay.bar.buttons[i].color = lay.buttons_config[i].color

\* the bottom bar called with the label and the one button of the clock, on a
\* screen wide enough for a group of three
C18_Witness ==
    /\ lay.what = "bottom_bar" /\ lay.label_text = "UTC"
    /\ lay.buttons_config = clock_mode_buttons_config
    /\ Len(lay.bar.buttons) = 3 /\ lay.bar.label.text = "MQTT STREAM"

(***************************************************************************)
(* SpecFont: the font-fit search of the clock (clock_mode.py lines 57-95)  *)
(* The text is its number of characters; a font is its size.  A font of    *)
(* size s measures the text len * s wide and s high, and                   *)
(* ImageFont.truetype raises for a size that is not positive.              *)
(***************************************************************************)
\* largest initial_font_size and min_font_size, largest font_size_step, and the
\* largest target_height and target_width
MaxFontSize == 5
MaxStep == 2
MaxBox == 5

\* ImageFont.truetype(font_path, size) returns a font
Loadable(size) == size > 0

\* text_size(draw, text, font)
Measure(len, size) == [w |-> len * size, h |-> size]

NoFontFound == [kind |-> "none", size |-> 0, w |-> 0, h |-> 0, tested |-> <<>>]

\* lines 87-95: no size fitted; the font of min_font_size, measured
FitFallback(len, min_font_size, tested) ==
    IF Loadable(min_font_size)
    THEN [kind |-> "font", size |-> min_font_size,
          w |-> Measure(len, min_font_size).w, h |-> Measure(len, min_font_size).h,
          tested |-> tested]
    ELSE [NoFontFound EXCEPT !.tested = tested]

RECURSIVE FitSearch(_, _, _, _, _, _, _)
\* lines 68-85: the loop from current_size on; tested lists the sizes the loop
\* has tried.  With a step of 0 a size that does not fit is tried for ever.
FitSearch(len, target_height, target_width, current_size, min_font_size, font_size_step, tested) ==
    IF current_size >= min_font_size
    THEN LET m == Measure(len, current_size) IN
         IF Loadable(current_size) /\ m.h <= target_height /\ m.w <= target_width
         THEN [kind |-> "font", size |-> current_size, w |-> m.w, h |-> m.h,
               tested |-> Append(tested, current_size)]
         ELSE IF font_size_step = 0
         THEN [kind |-> "loops", size |-> 0, w |-> 0, h |-> 0,
               tested |-> Append(tested, current_size)]
         ELSE FitSearch(len, target_height, target_width, current_size - font_size_step,
                        min_font_size, font_size_step, Append(tested, current_size))
    ELSE FitFallback(len, min_font_size, tested)

\* _get_max_font_for_text_and_space(draw, text, font_path, target_height,
\* target_width, initial_font_size, min_font_size, font_size_step)
GetMaxFontForTextAndSpace(len, target_height, target_width, initial_font_size, min_font_size, font_size_step) ==
    IF len = 0 \/ target_height <= 0 \/ target_width <= 0
    THEN NoFontFound
    ELSE FitSearch(len, target_height, target_width, initial_font_size, min_font_size,
                   font_size_step, <<>>)

TextLengths == {0, 1, 2}

\* the globals of InitLayout, and the arguments of one call
InitFont ==
    /\ InitProcess
    /\ messages_store = <<>>
    /\ current_display_mode = "clock"
    /\ debug_layout_enabled = FALSE
    /\ debug_touch_enabled = FALSE
    /\ log_control_messages_enabled = TRUE
    /\ active_buttons = <<>>
    /\ touch_cfg = NoTouchDevice
    /\ main = MainAt("loop_top")
    /\ \E len \in TextLengths, th \in 0..MaxBox, tw \in 0..MaxBox,
          start \in 0..MaxFontSize, min \in 0..MaxFontSize, step \in 0..MaxStep :
          lay = [what |-> "fit_call", len |-> len, target_height |-> th,
                 target_width |-> tw, initial_font_size |-> start,
                 min_font_size |-> min, font_size_step |-> step]

FitFont ==
    /\ lay.what = "fit_call"
    /\ lay' = [lay EXCEPT !.what = "fit"]
                 @@ [fit |-> GetMaxFontForTextAndSpace(lay.len, lay.target_height,
                                 lay.target_width, lay.initial_font_size,
                                 lay.min_font_size, lay.font_size_step)]
    /\ active_buttons' = active_buttons
    /\ LayoutFrame

SpecFont == InitFont /\ [][FitFont]_vars

\* the sizes startSize, startSize - step, ... that are >= minSize
TestedSizes(l) ==
    {s \in l.min_font_size..l.initial_font_size :
        (l.initial_font_size - s) % l.font_size_step = 0}

FitsBox(l, s) == s <= l.target_height /\ l.len * s <= l.target_width

\* a search: text and box are valid, the step descends and the range of sizes
\* is not empty
IsSearch(l) ==
    /\ l.what = "fit"
    /\ l.len > 0 /\ l.target_height > 0 /\ l.target_width > 0
    /\ l.font_size_step > 0
    /\ 0 < l.min_font_size /\ l.min_font_size <= l.initial_font_size

\* C19: the font-fit search tests the sizes startSize, startSize - step, ...
\* while the size is >= minSize and returns the first tested size whose measured
\* box has height <= maxHeight and width <= maxWidth, together with that size's
\* measurements; so it never returns a font exceeding the bounds when any tested
\* size fits, and when no tested size fits it returns the smallest tested size
\* with its own measured box, without raising.
C19_FirstFitOrSmallestTested ==
    IsSearch(lay) =>
        LET tested == TestedSizes(lay)
            fitting == {s \in tested : FitsBox(lay, s)}
            expected == IF fitting # {}
                        THEN CHOOSE s \in fitting : \A t \in fitting : t <= s
                        ELSE CHOOSE s \in tested : \A t \in tested : s <= t
        IN  /\ lay.fit.kind = "font"
            /\ lay.fit.size = expected
            /\ lay.fit.w = lay.len * expected /\ lay.fit.h = expected
            /\ fitting # {} => (lay.fit.h <= lay.target_height
                                /\ lay.fit.w <= lay.target_width)

\* sizes 5 and 3 were tested against a box of 2 x 2, neither fitted, and the
\* font returned has size 2
C19_Witness ==
    /\ IsSearch(lay) /\ lay.fit.kind = "font"
    /\ lay.fit.tested = <<5, 3>> /\ lay.fit.size = 2
    /\ lay.target_height = 2 /\ lay.target_width = 2 /\ lay.len = 2

\* C20: for all arguments of the font-fit search (any startSize, minSize and
\* step), the size of the font it returns never exceeds startSize.
C20_SizeAtMostStart ==
    (lay.what = "fit" /\ lay.fit.kind = "font") => lay.fit.size <= lay.initial_font_size

\* a search with minSize above startSize: no size was tested and the font
\* returned has the size minSize
C20_Witness ==
    /\ lay.what = "fit" /\ lay.fit.kind = "font"
    /\ lay.initial_font_size = 1 /\ lay.min_font_size = 2
    /\ lay.fit.tested = <<>> /\ lay.fit.size = 2

(***************************************************************************)
(* SpecXform: _transform_touch_coordinates applied to one raw sample, for  *)
(* every rotation, framebuffers of up to MaxDim x MaxDim pixels, touch     *)
(* devices with every pair of axis ranges, and lcars_constants.py both as  *)
(* it is (without the two calibration factors) and with the factors set.   *)
(***************************************************************************)
\* largest fb.width and fb.height
MaxDim == 3
\* largest edge error, in half pixels
MaxErrHalves == 2

Rotations == {0, 90, 180, 270}
Dims == 1..MaxDim

\* the raw values of a sample
RawSamples == 0..(MaxRaw + 1)

\* the (min, max) an axis reports
AxisRanges == {r \in (0..1) \X (0..(MaxRaw + 1)) : r[1] <= r[2]}

\* the touch devices: one without EV_ABS, and one per pair of axis ranges
XformDevices ==
    {PixelTouchDevice}
        \cup {TouchDevice(TRUE, TRUE, rx[1], rx[2], ry[1], ry[2]) : rx, ry \in AxisRanges}

\* cal_error_x_pixels and cal_error_y_pixels (lines 226-227)
EdgeErrors == {[n |-> k, d |-> 2] : k \in 0..MaxErrHalves}
Calibrations == {LcCalibration} \cup {Calibration(TRUE, e, e) : e \in EdgeErrors}

\* lines 256-286: the target dimension and the edge error that each raw axis is
\* scaled with
AxisTargets(rot, pw, ph, ex, ey) ==
    IF rot = 90
    THEN [x_dim |-> pw, x_err |-> ex, y_dim |-> ph, y_err |-> ey]
    ELSE [x_dim |-> ph, x_err |-> ey, y_dim |-> pw, y_err |-> ex]

\* framebuffer_utils.py lines 50-51: WIDTH, HEIGHT
LogicalSize(rot, pw, ph) == IF rot \in {0, 180} THEN <<pw, ph>> ELSE <<ph, pw>>

InitXform ==
    /\ InitProcess
    /\ messages_store = <<>>
    /\ current_display_mode = "events"
    /\ debug_layout_enabled = FALSE
    /\ debug_touch_enabled = FALSE
    /\ log_control_messages_enabled = TRUE
    /\ active_buttons = <<>>
    /\ touch_cfg = NoTouchDevice
    /\ main = MainAt("loop_top")
    /\ \E rot \in Rotations, pw \in Dims, ph \in Dims, cfg \in XformDevices,
          raw_x \in RawSamples, raw_y \in RawSamples, cal \in Calibrations :
          lay = [what |-> "transform_call", rot |-> rot, pw |-> pw, ph |-> ph,
                 cfg |-> cfg, raw_x |-> raw_x, raw_y |-> raw_y, cal |-> cal]

\* the device has EV_ABS and neither axis has min = max (lines 201-211)
Scales(cfg) ==
    cfg.present /\ cfg.has_abs /\ cfg.max_x # cfg.min_x /\ cfg.max_y # cfg.min_y

\* _transform_touch_coordinates(raw_x, raw_y); scaled holds what
\* get_calibrated_scaled_value returned for each raw axis, and curve what it
\* returns on that axis for every raw value; grid holds the point the transform
\* returns for every raw sample
Transform ==
    /\ lay.what = "transform_call"
    /\ LET t == AxisTargets(lay.rot, lay.pw, lay.ph, lay.cal.ex, lay.cal.ey)
           called == Scales(lay.cfg) /\ lay.cal.defined
       IN  lay' = [lay EXCEPT !.what = "transform"]
                  @@ [point |-> TransformTouch(lay.rot, lay.raw_x, lay.raw_y, lay.pw,
                                               lay.ph, lay.cfg, lay.cal),
                      grid |->
                          [s \in RawSamples \X RawSamples |->
                              TransformTouch(lay.rot, s[1], s[2], lay.pw, lay.ph,
                                             lay.cfg, lay.cal)],
                      scaled |->
                          IF called
                          THEN <<get_calibrated_scaled_value(lay.raw_x, lay.cfg.min_x,
                                     lay.cfg.max_x, t.x_dim, t.x_err),
                                 get_calibrated_scaled_value(lay.raw_y, lay.cfg.min_y,
                                     lay.cfg.max_y, t.y_dim, t.y_err)>>
                          ELSE <<>>,
                      curve |->
                          IF called
                          THEN <<[r \in RawSamples |->
                                     get_calibrated_scaled_value(r, lay.cfg.min_x,
                                         lay.cfg.max_x, t.x_dim, t.x_err)],
                                 [r \in RawSamples |->
                                     get_calibrated_scaled_value(r, lay.cfg.min_y,
                                         lay.cfg.max_y, t.y_dim, t.y_err)]>>
                          ELSE <<>>]
    /\ active_buttons' = active_buttons
    /\ LayoutFrame

SpecXform == InitXform /\ [][Transform]_vars

\* arithmetic on fractions n / d
RatAdd(a, b) == [n |-> a.n * b.d + b.n * a.d, d |-> a.d * b.d]
RatMul(a, b) == [n |-> a.n * b.n, d |-> a.d * b.d]
RatDiv(a, b) == RatNorm(a.n * b.d, a.d * b.n)
RatEq(a, b) == a.d # 0 /\ b.d # 0 /\ a.n * b.d = b.n * a.d
RatLess(a, b) == a.d > 0 /\ b.d > 0 /\ a.n * b.d < b.n * a.d

\* the calls of get_calibrated_scaled_value the transform made: one per raw axis
AxisCalls ==
    IF lay.what = "transform" /\ lay.scaled # <<>>
    THEN LET t == AxisTargets(lay.rot, lay.pw, lay.ph, lay.cal.ex, lay.cal.ey)
         IN  <<[raw |-> lay.raw_x, min |-> lay.cfg.min_x, max |-> lay.cfg.max_x,
                D |-> t.x_dim - 1, E |-> t.x_err, out |-> lay.scaled[1]],
               [raw |-> lay.raw_y, min |-> lay.cfg.min_y, max |-> lay.cfg.max_y,
                D |-> t.y_dim - 1, E |-> t.y_err, out |-> lay.scaled[2]]>>
    ELSE <<>>

\* D - 2E
CalDenominator(c) == RatAdd(RatInt(c.D), RatMul(RatInt(-2), c.E))
\* (raw - min) / (max - min)
RawFraction(c) == RatDiv(RatInt(c.raw - c.min), RatInt(c.max - c.min))
\* outputMin + (raw - min)/(max - min) x outputSpan
CalibratedValue(c) ==
    LET outputMin == RatDiv(RatMul(RatMul(RatInt(-1), c.E), RatInt(c.D)), CalDenominator(c))
        outputSpan == RatDiv(RatInt(c.D * c.D), CalDenominator(c))
    IN  RatAdd(outputMin, RatMul(RawFraction(c), outputSpan))
\* (raw - min) * D / (max - min)
LinearValue(c) == RatDiv(RatInt((c.raw - c.min) * c.D), RatInt(c.max - c.min))

\* C21: for an axis with max # min, the scaled value is outputMin + (raw - min) /
\* (max - min) x outputSpan with outputMin = -E*D/(D - 2E) and outputSpan =
\* D^2/(D - 2E) when D - 2E > 0, and the uncalibrated (raw - min)*D/(max - min)
\* when D - 2E <= 0; the value is a quotient with a positive divisor in both cases.
C21_CalibratedScaledValue ==
    \A i \in DOMAIN AxisCalls :
        LET c == AxisCalls[i] IN
        c.max # c.min =>
            /\ c.out.d > 0
            /\ IF CalDenominator(c).n > 0
               THEN RatEq(c.out, CalibratedValue(c))
               ELSE RatEq(c.out, LinearValue(c))

\* one axis is calibrated with a positive edge error, the other (a one-pixel
\* dimension) falls back to the linear scaling
C21_Witness ==
    /\ Len(AxisCalls) = 2
    /\ \E i, j \in DOMAIN AxisCalls :
        /\ AxisCalls[i].E.n > 0 /\ CalDenominator(AxisCalls[i]).n > 0
        /\ AxisCalls[i].raw > AxisCalls[i].min /\ AxisCalls[i].raw < AxisCalls[i].max
        /\ CalDenominator(AxisCalls[j]).n <= 0 /\ AxisCalls[j].D > 0
        /\ AxisCalls[j].raw > AxisCalls[j].min

\* the sensor reports min = max on the X axis or on the Y axis
DegenerateAxis(cfg) ==
    cfg.present /\ cfg.has_abs /\ (cfg.min_x = cfg.max_x \/ cfg.min_y = cfg.max_y)

\* C22: when the sensor reports min = max on the X axis or on the Y axis, the
\* transform calls no scaling (so divides nothing), raises nothing, and returns
\* the rotation-only remap of the raw sample for both coordinates.
C22_DegenerateAxisPassthrough ==
    (lay.what = "transform" /\ DegenerateAxis(lay.cfg)) =>
        /\ lay.scaled = <<>>
        /\ ~lay.point.raised
        /\ <<lay.point.x, lay.point.y>>
               = RotationRemap(lay.rot, lay.raw_x, lay.raw_y, lay.pw, lay.ph)

\* only the Y axis is degenerate, the sample is not the origin, and the panel
\* is not square
C22_Witness ==
    /\ lay.what = "transform"
    /\ DegenerateAxis(lay.cfg)
    /\ lay.cfg.min_x # lay.cfg.max_x
    /\ lay.cal.defined
    /\ lay.raw_x > 0 /\ lay.raw_y > 0 /\ lay.pw # lay.ph
    /\ <<lay.point.x, lay.point.y>>
           = RotationRemap(lay.rot, lay.raw_x, lay.raw_y, lay.pw, lay.ph)

Transformed(rot) == lay.what = "transform" /\ lay.rot = rot /\ ~lay.point.raised

\* C24 as stated: at 90 degrees logical Y is determined by raw X and does not
\* increase with it, and logical X is determined by raw Y.
C24_Rot90SwapsAndReflects ==
    Transformed(90) =>
        \A x1, x2, y1, y2 \in RawSamples :
            /\ lay.grid[<<x1, y1>>].y = lay.grid[<<x1, y2>>].y
            /\ lay.grid[<<x1, y1>>].x = lay.grid[<<x2, y1>>].x
            /\ x1 < x2 => lay.grid[<<x1, y1>>].y >= lay.grid[<<x2, y1>>].y

\* C24 as amended: at 90 degrees logical X is determined by raw X and logical Y
\* by raw Y, neither reflected: each grows with its raw axis, and without
\* scaling the logical point is the raw sample.
C24_Rot90KeepsAxes ==
    Transformed(90) =>
        /\ \A x1, x2, y1, y2 \in RawSamples :
            /\ lay.grid[<<x1, y1>>].x = lay.grid[<<x1, y2>>].x
            /\ lay.grid[<<x1, y1>>].y = lay.grid[<<x2, y1>>].y
            /\ x1 < x2 => lay.grid[<<x1, y1>>].x <= lay.grid[<<x2, y1>>].x
            /\ y1 < y2 => lay.grid[<<x1, y1>>].y <= lay.grid[<<x1, y2>>].y
        /\ ~Scales(lay.cfg) =>
               \A s \in RawSamples \X RawSamples :
                   <<lay.grid[s].x, lay.grid[s].y>> = s

\* at 90 degrees, a sample with raw X above raw Y came out with logical X above
\* logical Y, and logical Y grows with raw Y, not against raw X
C24_Witness ==
    /\ Transformed(90)
    /\ lay.raw_x > lay.raw_y
    /\ lay.point.x > lay.point.y
    /\ lay.grid[<<0, MaxRaw>>].y > lay.grid[<<MaxRaw, 0>>].y

\* the raw samples of a sensor whose ranges are the panel's pixels: raw X runs
\* along the framebuffer's height, raw Y along its width (lines 184-198)
InRangeSamples(pw, ph) == (0..(ph - 1)) \X (0..(pw - 1))

\* the points of the logical screen
LogicalPoints(rot, pw, ph) ==
    (0..(LogicalSize(rot, pw, ph)[1] - 1)) \X (0..(LogicalSize(rot, pw, ph)[2] - 1))

\* the raw sample a logical point of the remap comes from
InverseRemap(rot, x, y, pw, ph) ==
    IF rot = 0 THEN <<y, pw - 1 - x>>
    ELSE IF rot = 90 THEN <<x, y>>
    ELSE IF rot = 180 THEN <<ph - 1 - y, x>>
    ELSE <<ph - 1 - x, pw - 1 - y>>

\* the remap without scaling was applied (no EV_ABS ranges to scale with)
RemapOnly == lay.what = "transform" /\ ~Scales(lay.cfg)

\* C25: for each of the four rotations the remap without scaling is a bijection
\* between the in-range raw samples and the points of the logical screen: the
\* inverse mapping of the angle recovers every raw sample from its logical point,
\* and every logical point is the image of a raw sample.
C25_RemapIsBijection ==
    RemapOnly =>
        LET S == InRangeSamples(lay.pw, lay.ph)
            image(s) == <<lay.grid[s].x, lay.grid[s].y>>
        IN  /\ \A s \in S :
                InverseRemap(lay.rot, lay.grid[s].x, lay.grid[s].y, lay.pw, lay.ph) = s
            /\ \A s, t \in S : image(s) = image(t) => s = t
            /\ {image(s) : s \in S} = LogicalPoints(lay.rot, lay.pw, lay.ph)

\* a reflecting rotation on a panel that is not square, for a sample that is
\* not a fixed point of the remap
C25_Witness ==
    /\ RemapOnly
    /\ lay.rot = 270
    /\ lay.pw > lay.ph /\ lay.ph > 1
    /\ <<lay.raw_x, lay.raw_y>> \in InRangeSamples(lay.pw, lay.ph)
    /\ <<lay.point.x, lay.point.y>> # <<lay.raw_x, lay.raw_y>>
    /\ <<lay.point.x, lay.point.y>> \in LogicalPoints(lay.rot, lay.pw, lay.ph)

\* the calibration error is zero on both axes
ZeroError(cal) == cal.ex.n = 0 /\ cal.ey.n = 0

\* the sample lies within the ranges the sensor reports
WithinReported(cfg, raw_x, raw_y) ==
    /\ cfg.min_x <= raw_x /\ raw_x <= cfg.max_x
    /\ cfg.min_y <= raw_y /\ raw_y <= cfg.max_y

\* C28: for every rotation and screen size, a raw sample within the sensor's
\* reported ranges is transformed, with zero calibration error, to a point of
\* the logical screen: 0 <= logicalX <= WIDTH-1 and 0 <= logicalY <= HEIGHT-1.
C28_PointOnLogicalScreen ==
    (/\ lay.what = "transform"
     /\ Scales(lay.cfg)
     /\ ZeroError(lay.cal)
     /\ WithinReported(lay.cfg, lay.raw_x, lay.raw_y)) =>
        /\ ~lay.point.raised
        /\ <<lay.point.x, lay.point.y>> \in LogicalPoints(lay.rot, lay.pw, lay.ph)

\* a sample at the far end of both reported ranges, scaled with zero error onto
\* the far corner of a panel that is not square
C28_Witness ==
    /\ lay.what = "transform"
    /\ Scales(lay.cfg)
    /\ ZeroError(lay.cal)
    /\ lay.raw_x = lay.cfg.max_x /\ lay.raw_y = lay.cfg.max_y
    /\ lay.pw # lay.ph
    /\ lay.rot = 180
    /\ ~lay.point.raised
    /\ <<lay.point.x, lay.point.y>> = <<lay.pw - 1, 0>>

(***************************************************************************)
(* SpecShape: draw_lcars_shape applied once, for every position, size,     *)
(* radius and combination of the rounded-end flags; the drawing is the     *)
(* list of primitives handed to ImageDraw.                                 *)
(***************************************************************************)
\* largest w and h
MaxSide == 4
\* largest radius
MaxRadius == 3
\* largest x and y
MaxOrigin == 1

Min2(a, b) == IF a < b THEN a ELSE b

\* lines 28-43: the radius after the adjustments
AdjustedRadius(w, h, radius, left_round, right_round) ==
    LET r0 == IF radius < 0 THEN 0 ELSE radius
        r1 == IF (left_round \/ right_round) /\ w < 2 * r0 THEN w \div 2 ELSE r0
        r2 == IF (left_round \/ right_round) /\ h < 2 * r1 THEN h \div 2 ELSE r1
    IN  IF left_round /\ right_round
        THEN IF 2 * r2 > Min2(w, h) THEN Min2(w, h) \div 2 ELSE r2
        ELSE IF left_round \/ right_round
             THEN IF 2 * r2 > h THEN h \div 2 ELSE r2
             ELSE r2

Rectangle(box) == [kind |-> "rectangle", box |-> box]
Ellipse(box) == [kind |-> "ellipse", box |-> box]
\* pieslice(box, 90, 270) is the left half of the ellipse, pieslice(box, -90, 90)
\* the right half
Pieslice(box, half) == [kind |-> half, box |-> box]

\* the box of the right semi-circle placed at the end of the rectangular part
RightCapBoxFromBodyEnd(x, y, w, h, r) == <<x + w - r, y, x + w + r, y + h>>

\* lines 53 and 68: the box of the right semi-circle
RightCapBox(x, y, w, h, r) == <<x + w - 2 * r, y, x + w, y + h>>

\* draw_lcars_shape (lines 21-77, without the debug outline): the primitives
\* drawn, in order
draw_lcars_shape(x, y, w, h, radius, left_round, right_round) ==
    LET r == AdjustedRadius(w, h, radius, left_round, right_round)
        whole == <<x, y, x + w, y + h>>
        left_cap == Pieslice(<<x, y, x + 2 * r, y + h>>, "left_half")
        right_cap == Pieslice(RightCapBox(x, y, w, h, r), "right_half")
    IN  IF left_round /\ right_round
        THEN IF w > 2 * r /\ h > 0
             THEN <<Rectangle(<<x + r, y, x + w - r, y + h>>), left_cap, right_cap>>
             ELSE IF w > 0 /\ h > 0 THEN <<Ellipse(whole)>> ELSE <<>>
        ELSE IF left_round
        THEN IF w > r /\ h > 0
             THEN <<Rectangle(<<x + r, y, x + w, y + h>>), left_cap>>
             ELSE IF w > 0 /\ h > 0 THEN <<Rectangle(whole)>> ELSE <<>>
        ELSE IF right_round
        THEN IF w > r /\ h > 0
             THEN <<Rectangle(<<x, y, x + w - r, y + h>>), right_cap>>
             ELSE IF w > 0 /\ h > 0 THEN <<Rectangle(whole)>> ELSE <<>>
        ELSE IF w > 0 /\ h > 0 THEN <<Rectangle(whole)>> ELSE <<>>

InitShape ==
    /\ InitProcess
    /\ messages_store = <<>>
    /\ current_display_mode = "events"
    /\ debug_layout_enabled = FALSE
    /\ debug_touch_enabled = FALSE
    /\ log_control_messages_enabled = TRUE
    /\ active_buttons = <<>>
    /\ touch_cfg = NoTouchDevice
    /\ main = MainAt("loop_top")
    /\ \E x \in 0..MaxOrigin, y \in 0..MaxOrigin, w \in 0..MaxSide, h \in 0..MaxSide,
          radius \in (-1)..MaxRadius, left_round \in BOOLEAN, right_round \in BOOLEAN :
          lay = [what |-> "shape_call", x |-> x, y |-> y, w |-> w, h |-> h,
                 radius |-> radius, left_round |-> left_round,
                 right_round |-> right_round]

\* draw_lcars_shape(draw, x, y, w, h, radius, color_bg, left_round, right_round)
DrawShape ==
    /\ lay.what = "shape_call"
    /\ lay' = [lay EXCEPT !.what = "shape"]
              @@ [prims |-> draw_lcars_shape(lay.x, lay.y, lay.w, lay.h, lay.radius,
                                             lay.left_round, lay.right_round)]
    /\ active_buttons' = active_buttons
    /\ LayoutFrame

SpecShape == InitShape /\ [][DrawShape]_vars

\* the part of its box a primitive covers
Extent(p) ==
    LET b == p.box
        mid == b[1] + (b[3] - b[1]) \div 2
    IN  IF p.kind = "left_half" THEN <<b[1], b[2], mid, b[4]>>
        ELSE IF p.kind = "right_half" THEN <<mid, b[2], b[3], b[4]>>
        ELSE b

SetMin(S) == CHOOSE m \in S : \A k \in S : m <= k
SetMax(S) == CHOOSE m \in S : \A k \in S : m >= k

\* the bounding box of the union of the primitives
BoundingBox(prims) ==
    LET E == {Extent(prims[i]) : i \in DOMAIN prims}
    IN  <<SetMin({e[1] : e \in E}), SetMin({e[2] : e \in E}),
          SetMax({e[3] : e \in E}), SetMax({e[4] : e \in E})>>

\* w, h > 0 and radius <= min(w, h)/2
ShapeDrawn ==
    /\ lay.what = "shape"
    /\ lay.w > 0 /\ lay.h > 0
    /\ 2 * lay.radius <= Min2(lay.w, lay.h)

\* C26: for all w, h > 0, all radius <= min(w, h)/2 and every combination of the
\* rounded-end flags, draw_lcars_shape draws something and the union of what it
\* draws has bounding box exactly (x, y, x+w, y+h).
C26_BoundingBoxExact ==
    ShapeDrawn =>
        /\ lay.prims # <<>>
        /\ BoundingBox(lay.prims) = <<lay.x, lay.y, lay.x + lay.w, lay.y + lay.h>>

\* a right-rounded shape drawn as a rectangle and a semi-circle of positive
\* radius, away from the origin
C26_Witness ==
    /\ ShapeDrawn
    /\ lay.right_round /\ ~lay.left_round
    /\ lay.radius > 0 /\ lay.x > 0
    /\ Len(lay.prims) = 2
    /\ lay.prims[2].kind = "right_half"

(***************************************************************************)
(* Renders and the debug touch point under Spec                            *)
(***************************************************************************)
\* no callback, button action, render or shutdown is executing
Quiescent ==
    /\ net.pc = "idle"
    /\ main.pc = "loop_top"
    /\ byeStack = <<>>
    /\ ~exit_in_progress
    /\ fb_open

\* C27: whenever the system is quiescent and the mode is EventLog (and the
\* history is not empty, so that a render has been requested), the frame the
\* display sink holds is the one rendered from the current mode and the current
\* history: no frame of an older state is left on the display.
C27_QuiescentFrameIsCurrent ==
    (Quiescent /\ current_display_mode = "events" /\ messages_store # <<>>) =>
        display = PanelFrame(current_display_mode, messages_store)

\* the callback that appended a message and rendered has returned, and the
\* main loop is between two iterations
C27_Witness ==
    /\ Quiescent
    /\ current_display_mode = "events"
    /\ Len(messages_store) = MAX_MESSAGES_IN_STORE
    /\ renderCalls = 0

\* C29: in every reachable state, under any interleaving of the network
\* callback and the touch-polling loop, the stored debug touch point
\* (last_debug_touch_coords) is absent whenever touch debugging is disabled
\* (the callback being outside the two assignments of the disable command,
\* lines 439-440).
C29_NoPointWhileDisabled ==
    (~debug_touch_enabled /\ net.pc # "dt_clear") => last_debug_touch_coords = None

\* touch debugging has been disabled and its point cleared by the callback
\* while the touch loop was polling
C29_Witness ==
    /\ ~debug_touch_enabled
    /\ last_debug_touch_coords = None
    /\ net.pc = "ret" /\ net.msg.topic.suffix = "debug-touch"
    /\ main.pc = "drain"

(***************************************************************************)
(* Logging of control commands, under SpecMqtt                             *)
(***************************************************************************)
\* m is the record of the control command the callback is handling
RecordsCommand(m) ==
    /\ m.importance = "control"
    /\ m.text = PayloadStr(net.msg)
    /\ m.source = "LCARS/" \o net.msg.topic.suffix
    /\ m.topic = net.msg.topic

\* the history after the step is the history before it with the command's
\* record appended (the oldest message evicted if the history was full)
CommandAppended ==
    LET n == Len(messages_store')
        kept == IF Full(messages_store) THEN Tail(messages_store) ELSE messages_store
    IN  /\ n >= 1
        /\ RecordsCommand(messages_store'[n])
        /\ SubSeq(messages_store', 1, n - 1) = kept

\* the callback is handling control command suffix with payload ps
Handling(suffix, ps) ==
    /\ net.msg.topic.ns = "control"
    /\ net.msg.topic.suffix = suffix
    /\ PayloadStr(net.msg) = ps

====
